---- MODULE Spec2Model ----
(***************************************************************************)
(* Model of the workflow execution engine in                               *)
(* api/services/workflow/node_processor.go: processNodes, its recursive    *)
(* closure traverse, and the six node handlers.                            *)
(*                                                                         *)
(* Floating-point temperatures and thresholds are integers counting tenths *)
(* of a degree (210 is 21.0).  The two edge-label sentinels are written    *)
(* without their leading check-mark / cross glyph, which the module's      *)
(* character set cannot carry.  A measured duration is the token Elapsed.  *)
(***************************************************************************)
EXTENDS Integers, Sequences, FiniteSets, TLC

VARIABLES wf, payload, pc, steps, contextData, visited, stack, ret,
          result, err, invoked, trace, returned, other, fns, mock

vars == <<wf, payload, pc, steps, contextData, visited, stack, ret,
          result, err, invoked, trace, returned, other, fns, mock>>

\* what lies outside the call in progress: a second call waiting for the
\* processor (other), the package-level handler variables (fns) and whether
\* the call in progress was set up with the overrides of the test table (mock)
outside == <<other, fns, mock>>

aside == <<returned, outside>>

(***************************************************************************)
(* Constants of node_processor.go and errors.go                            *)
(***************************************************************************)
StartNodeID == "start"
EndNodeID == "end"
FormNodeID == "form"
WeatherAPINodeID == "weather-api"
ConditionNodeID == "condition"
EmailNodeID == "email"

StatusCompleted == "completed"
StatusFailed == "failed"

LabelConditionMet == "Condition Met"
LabelNoAlertNeeded == "No Alert Needed"

TemperatureKey == "weather.temperature"

NoErr == "nil"
ErrResponseDecodeFailed == "failed to decode response"
ErrMissingStartNode == "missing 'start' node"
ErrMissingEndNode == "missing 'end' node"
ErrMissingFormFieldName == "name is required"
ErrMissingFormFieldEmail == "email is required"
ErrMissingFormFieldCity == "city is required"

ErrNodeNotFound(id) == "node " \o id \o " not found in nodeMap"
ErrNoMatchingEdge(id) == "no matching conditional edge for node " \o id
ErrGeocodingRequest == "geocoding API request failed"
ErrNoResults(city) == "no results found for city: " \o city
ErrWeatherFetch == "failed to fetch weather data"
ErrWeatherStatus == "weather API returned status: 500"
ErrTempMissing == "weather temp not in map"
ErrTempNotFloat == "weather temp is not a float64"
ErrUnsupportedOperator(op) == "unsupported operator: " \o op

Pending == "pending"
Elapsed == "elapsed"
Now == "now"

(***************************************************************************)
(* Bounds                                                                  *)
(***************************************************************************)
MaxEdges == 2

(***************************************************************************)
(* Workflow definitions and payloads handed to processNodes                *)
(***************************************************************************)
\* NodeMetadata.EmailTemplate is a pointer: NilTemplate is the nil pointer
NilTemplate == [isNil |-> TRUE, subject |-> "", body |-> <<>>]

AlertTemplate ==
    [isNil |-> FALSE, subject |-> "Weather Alert",
     body |-> << "Hello, the temperature in ", "{{city}}", " is ",
                 "{{temperature}}", " degrees." >>]

Node(id, type, hasTemplate) ==
    [id |-> id, type |-> type,
     data |-> [label |-> "L-" \o id, description |-> "D-" \o id,
               emailTemplate |-> IF hasTemplate THEN AlertTemplate ELSE NilTemplate]]

Edge(s, t, l) == [source |-> s, target |-> t, label |-> l]

FullNodes ==
    << Node(StartNodeID, "start", FALSE),
       Node(FormNodeID, "form", FALSE),
       Node(WeatherAPINodeID, "integration", FALSE),
       Node(ConditionNodeID, "condition", FALSE),
       Node(EmailNodeID, "email", TRUE),
       Node(EndNodeID, "end", FALSE),
       Node("x", "form", FALSE) >>

NoStartNodes == SelectSeq(FullNodes, LAMBDA n : n.id # StartNodeID)
NoEndNodes == SelectSeq(FullNodes, LAMBDA n : n.id # EndNodeID)

EdgeChoices ==
    { Edge(StartNodeID, FormNodeID, ""),
      Edge(StartNodeID, EndNodeID, ""),
      Edge(StartNodeID, "x", ""),
      Edge(StartNodeID, "ghost", ""),
      Edge(FormNodeID, EndNodeID, ""),
      Edge(FormNodeID, StartNodeID, ""),
      Edge(FormNodeID, FormNodeID, ""),
      Edge("x", EndNodeID, ""),
      Edge(ConditionNodeID, EmailNodeID, LabelConditionMet),
      Edge(ConditionNodeID, EndNodeID, LabelNoAlertNeeded),
      Edge(ConditionNodeID, "x", ""),
      Edge(EmailNodeID, EndNodeID, "") }

RECURSIVE SeqsUpTo(_, _)
SeqsUpTo(S, n) ==
    IF n = 0 THEN { <<>> }
    ELSE LET shorter == SeqsUpTo(S, n - 1)
         IN  shorter \cup { Append(s, e) : s \in shorter, e \in S }

Tails == SeqsUpTo(EdgeChoices, MaxEdges)

WeatherSpine ==
    << Edge(StartNodeID, WeatherAPINodeID, ""),
       Edge(WeatherAPINodeID, ConditionNodeID, "") >>

Prefixes == { <<>>, WeatherSpine }

\* the workflows of node_processor_test.go and shapes the generated family
\* does not contain
MinimalWorkflow ==
    [nodes |-> << Node(StartNodeID, "start", FALSE), Node(EndNodeID, "end", FALSE) >>,
     edges |-> << Edge(StartNodeID, EndNodeID, "") >>]

OnlyEndWorkflow ==
    [nodes |-> << Node(EndNodeID, "end", FALSE) >>, edges |-> <<>>]

OnlyStartWorkflow ==
    [nodes |-> << Node(StartNodeID, "start", FALSE) >>, edges |-> <<>>]

HappyPathWorkflow ==
    [nodes |-> SubSeq(FullNodes, 1, 6),
     edges |-> << Edge(StartNodeID, FormNodeID, ""),
                  Edge(FormNodeID, WeatherAPINodeID, ""),
                  Edge(WeatherAPINodeID, ConditionNodeID, ""),
                  Edge(ConditionNodeID, EmailNodeID, LabelConditionMet),
                  Edge(EmailNodeID, EndNodeID, "") >>]

DefaultWorkflow ==
    [nodes |-> SubSeq(FullNodes, 1, 6),
     edges |-> << Edge(StartNodeID, FormNodeID, ""),
                  Edge(FormNodeID, WeatherAPINodeID, ""),
                  Edge(WeatherAPINodeID, ConditionNodeID, ""),
                  Edge(ConditionNodeID, EmailNodeID, LabelConditionMet),
                  Edge(ConditionNodeID, EndNodeID, LabelNoAlertNeeded),
                  Edge(EmailNodeID, EndNodeID, "") >>]

DiamondWorkflow ==
    [nodes |-> FullNodes,
     edges |-> << Edge(StartNodeID, FormNodeID, ""),
                  Edge(FormNodeID, EndNodeID, ""),
                  Edge(StartNodeID, "x", ""),
                  Edge("x", EndNodeID, ""),
                  Edge(EndNodeID, StartNodeID, "") >>]

NoTemplateWorkflow ==
    [nodes |-> << Node(StartNodeID, "start", FALSE),
                  Node(EmailNodeID, "email", FALSE),
                  Node(EndNodeID, "end", FALSE) >>,
     edges |-> << Edge(StartNodeID, EmailNodeID, ""),
                  Edge(EmailNodeID, EndNodeID, "") >>]

ReservedIdWorkflow ==
    [nodes |-> << Node(StartNodeID, "start", FALSE),
                  Node(FormNodeID, "email", TRUE),
                  Node(EndNodeID, "end", FALSE) >>,
     edges |-> << Edge(StartNodeID, FormNodeID, ""),
                  Edge(FormNodeID, EndNodeID, "") >>]

\* two nodes share the id "form": nodeMap keeps the later one
DuplicateIdWorkflow ==
    [nodes |-> << Node(StartNodeID, "start", FALSE),
                  Node(FormNodeID, "form", FALSE),
                  Node(FormNodeID, "email", TRUE),
                  Node(EndNodeID, "end", FALSE) >>,
     edges |-> << Edge(StartNodeID, FormNodeID, ""),
                  Edge(FormNodeID, EndNodeID, ""),
                  Edge(StartNodeID, FormNodeID, "") >>]

\* an email node with a template, reached without any weather node before it
EmailOnlyWorkflow ==
    [nodes |-> << Node(StartNodeID, "start", FALSE),
                  Node(EmailNodeID, "email", TRUE),
                  Node(EndNodeID, "end", FALSE) >>,
     edges |-> << Edge(StartNodeID, EmailNodeID, ""),
                  Edge(EmailNodeID, EndNodeID, "") >>]

\* the condition node has two edges for each outcome, with different targets
ForkedConditionWorkflow ==
    [nodes |-> FullNodes,
     edges |-> << Edge(StartNodeID, FormNodeID, ""),
                  Edge(FormNodeID, WeatherAPINodeID, ""),
                  Edge(WeatherAPINodeID, ConditionNodeID, ""),
                  Edge(ConditionNodeID, EndNodeID, LabelConditionMet),
                  Edge(ConditionNodeID, "x", LabelNoAlertNeeded),
                  Edge(ConditionNodeID, EmailNodeID, LabelConditionMet),
                  Edge(ConditionNodeID, EmailNodeID, LabelNoAlertNeeded),
                  Edge(EmailNodeID, EndNodeID, "") >>]

FixedWorkflows ==
    { MinimalWorkflow, OnlyEndWorkflow, OnlyStartWorkflow, HappyPathWorkflow,
      DefaultWorkflow, DiamondWorkflow, NoTemplateWorkflow, ReservedIdWorkflow,
      DuplicateIdWorkflow, EmailOnlyWorkflow, ForkedConditionWorkflow }

Workflows ==
    FixedWorkflows
    \cup { [nodes |-> FullNodes, edges |-> p \o t] : p \in Prefixes, t \in Tails }
    \cup { [nodes |-> n, edges |-> t] : n \in {NoStartNodes, NoEndNodes}, t \in Tails }

Payload(name, email, city, op, th) ==
    [formData |-> [name |-> name, email |-> email, city |-> city],
     condition |-> [operator |-> op, threshold |-> th]]

Payloads ==
    { Payload("Jane", "jane@example.com", "Melbourne", "equals", 210),
      Payload("", "jane@example.com", "Melbourne", "equals", 210),
      Payload("Jane", "jane@example.com", "", "greater_than", 210),
      Payload("Jane", "jane@example.com", "Melbourne", "between", 210) }

Temps == { 205, 210 }

\* what the two external services answer to one weather lookup
\* an answer: how the geocoding request ended and the results it decoded to
\* (a result is its pair of coordinates), how the weather request ended and
\* the temperature it decoded to
ExtAnswers(resultLists, temps) ==
    { [geo |-> g, results |-> <<>>, wx |-> "none", temp |-> 0] :
        g \in {"reqerr", "decodeerr", "ok"} }
    \cup { [geo |-> "ok", results |-> r, wx |-> w, temp |-> 0] :
             r \in resultLists, w \in {"reqerr", "status", "decodeerr"} }
    \cup { [geo |-> "ok", results |-> r, wx |-> "ok", temp |-> t] :
             r \in resultLists, t \in temps }

ExtOutcomes == ExtAnswers({ <<"lat-a,lon-a">> }, Temps)

(***************************************************************************)
(* Locals of processNodes: nodeMap and adj                                 *)
(***************************************************************************)
NodeIds(w) == { w.nodes[k].id : k \in DOMAIN w.nodes }

\* nodeMap[node.ID] = node for each node in order: the last node of an id wins
nodeMap(w) ==
    [id \in NodeIds(w) |->
        LET ks == { k \in DOMAIN w.nodes : w.nodes[k].id = id }
            last == CHOOSE k \in ks : \A j \in ks : j <= k
        IN  w.nodes[last]]

RECURSIVE TargetsFrom(_, _)
TargetsFrom(edges, id) ==
    IF edges = <<>> THEN <<>>
    ELSE IF Head(edges).source = id
         THEN <<Head(edges).target>> \o TargetsFrom(Tail(edges), id)
         ELSE TargetsFrom(Tail(edges), id)

RECURSIVE Reverse(_)
Reverse(q) == IF q = <<>> THEN <<>> ELSE Append(Reverse(Tail(q)), Head(q))

\* variant: the targets are prepended, so adj lists them last edge first
adjPrepend(w, id) == Reverse(TargetsFrom(w.edges, id))

RECURSIVE SourcesInto(_, _)
SourcesInto(edges, id) ==
    IF edges = <<>> THEN <<>>
    ELSE IF Head(edges).target = id
         THEN <<Head(edges).source>> \o SourcesInto(Tail(edges), id)
         ELSE SourcesInto(Tail(edges), id)

\* variant: the map is keyed by the target and lists the sources
adjByTarget(w, id) == SourcesInto(w.edges, id)

\* adj[edge.Source] = append(adj[edge.Source], edge.Target)
adj(w, id) == TargetsFrom(w.edges, id)

(***************************************************************************)
(* Values of the untyped context map and their formatting                  *)
(***************************************************************************)
Float64(v) == [type |-> "float64", val |-> v]

EmptyContext == [k \in {} |-> Float64(0)]

\* fmt.Sprintf("%.1f", v) for a float64 held in tenths
FormatF1(v) == ToString(v \div 10) \o "." \o ToString(v % 10)

\* fmt.Sprintf("%.1f", contextData["weather.temperature"]) on the map entry
SprintfContextTemp(ctx) ==
    IF TemperatureKey \notin DOMAIN ctx THEN "%!f(<nil>)"
    ELSE IF ctx[TemperatureKey].type = "float64" THEN FormatF1(ctx[TemperatureKey].val)
    ELSE "%!f(" \o ctx[TemperatureKey].type \o ")"

\* strings.ReplaceAll(operator, "_", " ") on the operators the switch accepts
OperatorReadable(op) ==
    CASE op = "greater_than" -> "greater than"
      [] op = "less_than" -> "less than"
      [] op = "greater_than_or_equal" -> "greater than or equal"
      [] op = "less_than_or_equal" -> "less than or equal"
      [] OTHER -> op

RECURSIVE RenderBody(_, _, _)
\* the two nested strings.ReplaceAll calls over the template body
RenderBody(parts, city, temperature) ==
    IF parts = <<>> THEN ""
    ELSE (CASE Head(parts) = "{{city}}" -> city
            [] Head(parts) = "{{temperature}}" -> temperature
            [] OTHER -> Head(parts))
         \o RenderBody(Tail(parts), city, temperature)

(***************************************************************************)
(* Node handlers                                                           *)
(***************************************************************************)
\* variant: the start handler returns an error
processStartNodeFails(node) == "start node failed"

processStartNode(node) == NoErr

processEndNode(node) == NoErr

\* variant: the email field is checked before the name field
processFormNodeEmailFirst(node, p) ==
    IF p.formData.email = "" THEN ErrMissingFormFieldEmail
    ELSE IF p.formData.name = "" THEN ErrMissingFormFieldName
    ELSE IF p.formData.city = "" THEN ErrMissingFormFieldCity
    ELSE NoErr

processFormNode(node, p) ==
    IF p.formData.name = "" THEN ErrMissingFormFieldName
    ELSE IF p.formData.email = "" THEN ErrMissingFormFieldEmail
    ELSE IF p.formData.city = "" THEN ErrMissingFormFieldCity
    ELSE NoErr

\* http.Get(geoURL) for the city; http.Get(apiEndpoint) with {lat}, {lon}
\* replaced by the coordinates
GeoCall(city) == [svc |-> "geocoding", arg |-> city]
WeatherCall(coords) == [svc |-> "weather", arg |-> coords]

\* variant: the coordinates are those of the last result
processWeatherNodeLastResult(node, p, ctx, ext) ==
    LET city == p.formData.city IN
    IF city = "" THEN
        [err |-> ErrMissingFormFieldCity, ctx |-> ctx, calls |-> <<>>]
    ELSE IF ext.geo = "reqerr" THEN
        [err |-> ErrGeocodingRequest, ctx |-> ctx, calls |-> <<GeoCall(city)>>]
    ELSE IF ext.geo = "decodeerr" THEN
        [err |-> ErrResponseDecodeFailed, ctx |-> ctx, calls |-> <<GeoCall(city)>>]
    ELSE IF Len(ext.results) = 0 THEN
        [err |-> ErrNoResults(city), ctx |-> ctx, calls |-> <<GeoCall(city)>>]
    ELSE
    LET both == << GeoCall(city), WeatherCall(ext.results[Len(ext.results)]) >> IN
    IF ext.wx = "reqerr" THEN
        [err |-> ErrWeatherFetch, ctx |-> ctx, calls |-> both]
    ELSE IF ext.wx = "status" THEN
        [err |-> ErrWeatherStatus, ctx |-> ctx, calls |-> both]
    ELSE IF ext.wx = "decodeerr" THEN
        [err |-> ErrResponseDecodeFailed, ctx |-> ctx, calls |-> both]
    ELSE
        [err |-> NoErr,
         ctx |-> (TemperatureKey :> Float64(ext.temp)) @@ ctx,
         calls |-> both]

\* variant: the temperature is stored before the status code is looked at
processWeatherNodeStoresEarly(node, p, ctx, ext) ==
    LET city == p.formData.city IN
    IF city = "" THEN
        [err |-> ErrMissingFormFieldCity, ctx |-> ctx, calls |-> <<>>]
    ELSE IF ext.geo = "reqerr" THEN
        [err |-> ErrGeocodingRequest, ctx |-> ctx, calls |-> <<GeoCall(city)>>]
    ELSE IF ext.geo = "decodeerr" THEN
        [err |-> ErrResponseDecodeFailed, ctx |-> ctx, calls |-> <<GeoCall(city)>>]
    ELSE IF Len(ext.results) = 0 THEN
        [err |-> ErrNoResults(city), ctx |-> ctx, calls |-> <<GeoCall(city)>>]
    ELSE
    LET both == << GeoCall(city), WeatherCall(ext.results[1]) >> IN
    IF ext.wx = "reqerr" THEN
        [err |-> ErrWeatherFetch, ctx |-> ctx, calls |-> both]
    ELSE IF ext.wx = "status" THEN
        [err |-> ErrWeatherStatus, ctx |-> (TemperatureKey :> Float64(ext.temp)) @@ ctx, calls |-> both]
    ELSE IF ext.wx = "decodeerr" THEN
        [err |-> ErrResponseDecodeFailed, ctx |-> ctx, calls |-> both]
    ELSE
        [err |-> NoErr,
         ctx |-> (TemperatureKey :> Float64(ext.temp)) @@ ctx,
         calls |-> both]

\* ext is the answer of the geocoding and weather services to this call;
\* calls lists the requests issued, ctx is the context map afterwards
processWeatherNode(node, p, ctx, ext) ==
    LET city == p.formData.city IN
    IF city = "" THEN
        [err |-> ErrMissingFormFieldCity, ctx |-> ctx, calls |-> <<>>]
    ELSE IF ext.geo = "reqerr" THEN
        [err |-> ErrGeocodingRequest, ctx |-> ctx, calls |-> <<GeoCall(city)>>]
    ELSE IF ext.geo = "decodeerr" THEN
        [err |-> ErrResponseDecodeFailed, ctx |-> ctx, calls |-> <<GeoCall(city)>>]
    ELSE IF Len(ext.results) = 0 THEN
        [err |-> ErrNoResults(city), ctx |-> ctx, calls |-> <<GeoCall(city)>>]
    ELSE
    LET both == << GeoCall(city), WeatherCall(ext.results[1]) >> IN
    IF ext.wx = "reqerr" THEN
        [err |-> ErrWeatherFetch, ctx |-> ctx, calls |-> both]
    ELSE IF ext.wx = "status" THEN
        [err |-> ErrWeatherStatus, ctx |-> ctx, calls |-> both]
    ELSE IF ext.wx = "decodeerr" THEN
        [err |-> ErrResponseDecodeFailed, ctx |-> ctx, calls |-> both]
    ELSE
        [err |-> NoErr,
         ctx |-> (TemperatureKey :> Float64(ext.temp)) @@ ctx,
         calls |-> both]

\* the closure the test table installs in processWeatherNodeFn
mockWeatherNode(node, p, ctx) ==
    [err |-> NoErr, ctx |-> (TemperatureKey :> Float64(210)) @@ ctx, calls |-> <<>>]

\* variant: "equals" compares with > instead of ==
processConditionNodeEqualsAsGreater(node, p, ctx) ==
    IF TemperatureKey \notin DOMAIN ctx THEN
        [met |-> FALSE, err |-> ErrTempMissing]
    ELSE IF ctx[TemperatureKey].type # "float64" THEN
        [met |-> FALSE, err |-> ErrTempNotFloat]
    ELSE
        LET temperature == ctx[TemperatureKey].val
            operator == p.condition.operator
            threshold == p.condition.threshold
        IN  IF operator = "greater_than" \/ operator = "equals" THEN
                [met |-> temperature > threshold, err |-> NoErr]
            ELSE IF operator = "less_than" THEN
                [met |-> temperature < threshold, err |-> NoErr]
            ELSE IF operator = "greater_than_or_equal" THEN
                [met |-> temperature >= threshold, err |-> NoErr]
            ELSE IF operator = "less_than_or_equal" THEN
                [met |-> temperature <= threshold, err |-> NoErr]
            ELSE [met |-> FALSE, err |-> ErrUnsupportedOperator(operator)]

\* variant: "greater_than_or_equal" is strict
processConditionNodeStrictAtBoundary(node, p, ctx) ==
    IF TemperatureKey \notin DOMAIN ctx THEN
        [met |-> FALSE, err |-> ErrTempMissing]
    ELSE IF ctx[TemperatureKey].type # "float64" THEN
        [met |-> FALSE, err |-> ErrTempNotFloat]
    ELSE
        LET temperature == ctx[TemperatureKey].val
            operator == p.condition.operator
            threshold == p.condition.threshold
        IN  CASE operator = "greater_than" ->
                    [met |-> temperature > threshold, err |-> NoErr]
              [] operator = "less_than" ->
                    [met |-> temperature < threshold, err |-> NoErr]
              [] operator = "equals" ->
                    [met |-> temperature = threshold, err |-> NoErr]
              [] operator = "greater_than_or_equal" ->
                    [met |-> temperature > threshold, err |-> NoErr]
              [] operator = "less_than_or_equal" ->
                    [met |-> temperature <= threshold, err |-> NoErr]
              [] OTHER ->
                    [met |-> FALSE, err |-> ErrUnsupportedOperator(operator)]

\* variant: the operator is looked at before the context
processConditionNodeOperatorFirst(node, p, ctx) ==
    IF p.condition.operator \notin
          { "greater_than", "less_than", "equals", "greater_than_or_equal",
            "less_than_or_equal" } THEN
        [met |-> FALSE, err |-> ErrUnsupportedOperator(p.condition.operator)]
    ELSE IF TemperatureKey \notin DOMAIN ctx THEN
        [met |-> FALSE, err |-> ErrTempMissing]
    ELSE IF ctx[TemperatureKey].type # "float64" THEN
        [met |-> FALSE, err |-> ErrTempNotFloat]
    ELSE
        LET temperature == ctx[TemperatureKey].val
            operator == p.condition.operator
            threshold == p.condition.threshold
        IN  CASE operator = "greater_than" ->
                    [met |-> temperature > threshold, err |-> NoErr]
              [] operator = "less_than" ->
                    [met |-> temperature < threshold, err |-> NoErr]
              [] operator = "equals" ->
                    [met |-> temperature = threshold, err |-> NoErr]
              [] operator = "greater_than_or_equal" ->
                    [met |-> temperature >= threshold, err |-> NoErr]
              [] operator = "less_than_or_equal" ->
                    [met |-> temperature <= threshold, err |-> NoErr]
              [] OTHER ->
                    [met |-> FALSE, err |-> ErrUnsupportedOperator(operator)]

processConditionNode(node, p, ctx) ==
    IF TemperatureKey \notin DOMAIN ctx THEN
        [met |-> FALSE, err |-> ErrTempMissing]
    ELSE IF ctx[TemperatureKey].type # "float64" THEN
        [met |-> FALSE, err |-> ErrTempNotFloat]
    ELSE
        LET temperature == ctx[TemperatureKey].val
            operator == p.condition.operator
            threshold == p.condition.threshold
        IN  CASE operator = "greater_than" ->
                    [met |-> temperature > threshold, err |-> NoErr]
              [] operator = "less_than" ->
                    [met |-> temperature < threshold, err |-> NoErr]
              [] operator = "equals" ->
                    [met |-> temperature = threshold, err |-> NoErr]
              [] operator = "greater_than_or_equal" ->
                    [met |-> temperature >= threshold, err |-> NoErr]
              [] operator = "less_than_or_equal" ->
                    [met |-> temperature <= threshold, err |-> NoErr]
              [] OTHER ->
                    [met |-> FALSE, err |-> ErrUnsupportedOperator(operator)]

processEmailNode(node, p, ctx) == NoErr

\* the closure the test table installs in processEmailNodeFn
mockEmailNode(node, p) == NoErr

\* var processWeatherNodeFn = processWeatherNode
\* var processEmailNodeFn = processEmailNode
DefaultFns == [weather |-> "processWeatherNode", email |-> "processEmailNode"]

\* the values the setup of the test table assigns
MockFns == [weather |-> "mockWeatherNode", email |-> "mockEmailNode"]

\* processWeatherNodeFn(node, payload, contextData)
processWeatherNodeFn(fn, node, p, ctx, ext) ==
    IF fn = "processWeatherNode" THEN processWeatherNode(node, p, ctx, ext)
    ELSE mockWeatherNode(node, p, ctx)

\* processEmailNodeFn(node, payload)
processEmailNodeFn(fn, node, p, ctx) ==
    IF fn = "processEmailNode" THEN processEmailNode(node, p, ctx)
    ELSE mockEmailNode(node, p)

(***************************************************************************)
(* Step recording and the outputs built at the dispatch site               *)
(***************************************************************************)
appendStep(ss, node, status, output) ==
    Append(ss, [nodeId |-> node.id, type |-> node.type,
                label |-> node.data.label,
                description |-> node.data.description,
                status |-> status, output |-> output])

\* variant: the failure branch records the error alone
FailedOutputErrorOnly(e) == [error |-> e]

FailedOutput(e) == [error |-> e, duration |-> Elapsed]

PlainOutput == [duration |-> Elapsed]

FormOutput(p) ==
    [name |-> p.formData.name, email |-> p.formData.email,
     city |-> p.formData.city, duration |-> Elapsed]

WeatherOutput(p, ctx) ==
    [temperature |-> ctx[TemperatureKey], location |-> p.formData.city,
     duration |-> Elapsed]

\* variant: actualValue reports the threshold
ConditionOutputReportsThreshold(p, ctx, conditionMet) ==
    LET actualValue == ctx[TemperatureKey].val
        conditionText == IF conditionMet THEN "condition met" ELSE "condition not met"
    IN  [conditionMet |-> conditionMet,
         threshold |-> p.condition.threshold,
         operator |-> p.condition.operator,
         actualValue |-> Float64(p.condition.threshold),
         message |-> "Temperature " \o FormatF1(actualValue) \o " is "
                     \o OperatorReadable(p.condition.operator) \o " "
                     \o FormatF1(p.condition.threshold) \o " - " \o conditionText,
         duration |-> Elapsed]

ConditionOutput(p, ctx, conditionMet) ==
    LET actualValue == ctx[TemperatureKey].val
        conditionText == IF conditionMet THEN "condition met" ELSE "condition not met"
    IN  [conditionMet |-> conditionMet,
         threshold |-> p.condition.threshold,
         operator |-> p.condition.operator,
         actualValue |-> ctx[TemperatureKey],
         message |-> "Temperature " \o FormatF1(actualValue) \o " is "
                     \o OperatorReadable(p.condition.operator) \o " "
                     \o FormatF1(p.condition.threshold) \o " - " \o conditionText,
         duration |-> Elapsed]

EmailOutput(node, p, ctx) ==
    [emailDraft |->
        [to |-> p.formData.email,
         from |-> "weather-alerts@example.com",
         subject |-> node.data.emailTemplate.subject,
         body |-> RenderBody(node.data.emailTemplate.body, p.formData.city,
                             SprintfContextTemp(ctx)),
         timestamp |-> Now],
     deliveryStatus |-> "sent",
     messageId |-> "msg_abc123def456",
     emailSent |-> TRUE,
     duration |-> Elapsed]

(***************************************************************************)
(* processNodes as a state machine.  pc is the position of the call:       *)
(* "init" before validation, "running" inside traverse, "done" once it has *)
(* returned (result, err), "panicked" when it unwound with a runtime panic.*)
(* stack holds the activations of traverse; a frame is at "enter" (before  *)
(* the visited guard), "route" (condition node, before the edge scan),     *)
(* "tail" (inside `return traverse(edge.Target)`) or "loop" (the descent   *)
(* loop, i the next index into adj[id]).  ret is the value a returning     *)
(* activation hands to its caller.  invoked and trace are history: the     *)
(* handler calls made and the traverse calls entered, in order.            *)
(***************************************************************************)
NilResult == [isNil |-> TRUE, executedAt |-> "", status |-> "", steps |-> <<>>]

Frame(id, from) == [id |-> id, from |-> from, pc |-> "enter", i |-> 0]

\* returned is what a handler called on its own handed back; NoReturn before
\* any such call
NoReturn == [fn |-> "none", met |-> FALSE, err |-> NoErr]

\* no second call
NoOther == [pc |-> "none"]

Init ==
    /\ returned = NoReturn
    /\ other = NoOther
    /\ fns = DefaultFns
    /\ mock = FALSE
    /\ wf \in Workflows
    /\ payload \in Payloads
    /\ pc = "init"
    /\ steps = <<>>
    /\ contextData = EmptyContext
    /\ visited = {}
    /\ stack = <<>>
    /\ ret = Pending
    /\ result = NilResult
    /\ err = NoErr
    /\ invoked = <<>>
    /\ trace = <<>>

Top == stack[Len(stack)]

Pop == SubSeq(stack, 1, Len(stack) - 1)

\* variant: the presence check of the start node is left out
ValidateEndOnly(w) ==
    IF EndNodeID \notin NodeIds(w) THEN ErrMissingEndNode ELSE NoErr

\* variant: the presence check of the end node is left out
ValidateStartOnly(w) ==
    IF StartNodeID \notin NodeIds(w) THEN ErrMissingStartNode ELSE NoErr

\* the two presence checks on nodeMap that precede the traversal
Validate(w) ==
    IF StartNodeID \notin NodeIds(w) THEN ErrMissingStartNode
    ELSE IF EndNodeID \notin NodeIds(w) THEN ErrMissingEndNode
    ELSE NoErr

ValidationFails ==
    /\ pc = "init"
    /\ Validate(wf) # NoErr
    /\ pc' = "done"
    /\ result' = NilResult
    /\ err' = Validate(wf)
    /\ UNCHANGED <<aside, wf, payload, steps, contextData, visited, stack, ret, invoked, trace>>

BeginTraverse ==
    /\ pc = "init"
    /\ Validate(wf) = NoErr
    /\ pc' = "running"
    /\ stack' = << Frame(StartNodeID, "root") >>
    /\ UNCHANGED <<aside, wf, payload, steps, contextData, visited, ret, result, err, invoked, trace>>

AtEnter == pc = "running" /\ ret = Pending /\ stack # <<>> /\ Top.pc = "enter"

\* variant: the guard never fires
VisitedGuardOff(id) == FALSE

\* variant: only the start node is guarded
VisitedGuardStartOnly(id) == id = StartNodeID /\ id \in visited

\* variant: visited is one map of the package, marked by every call
VisitedGuardPackage(id) == id \in visited \cup other.visited

\* if visited[id] { return nil }
VisitedGuard(id) == id \in visited

Entered(kind) == Append(trace, [from |-> Top.from, to |-> Top.id, kind |-> kind])

TraverseVisited ==
    /\ AtEnter
    /\ VisitedGuard(Top.id)
    /\ trace' = Entered("skip")
    /\ stack' = Pop
    /\ ret' = NoErr
    /\ UNCHANGED <<aside, wf, payload, pc, steps, contextData, visited, result, err, invoked>>

TraverseNotFound ==
    /\ AtEnter
    /\ ~VisitedGuard(Top.id)
    /\ Top.id \notin NodeIds(wf)
    /\ visited' = visited \cup {Top.id}
    /\ trace' = Entered("notfound")
    /\ stack' = Pop
    /\ ret' = ErrNodeNotFound(Top.id)
    /\ UNCHANGED <<aside, wf, payload, pc, steps, contextData, result, err, invoked>>

\* the key of `switch node.ID`
DispatchKey(node) == node.id

AtCase(id) ==
    /\ AtEnter
    /\ ~VisitedGuard(Top.id)
    /\ Top.id \in NodeIds(wf)
    /\ DispatchKey(nodeMap(wf)[Top.id]) = id

\* what a failed handler leaves behind: a failed step, then `return nil`
HandlerFailed(node, e) ==
    /\ steps' = appendStep(steps, node, StatusFailed, FailedOutput(e))
    /\ stack' = Pop
    /\ ret' = NoErr

\* what a successful handler leaves behind: a completed step, then the
\* code after the switch case (nextPc)
HandlerSucceeded(node, output, nextPc) ==
    /\ steps' = appendStep(steps, node, StatusCompleted, output)
    /\ stack' = [stack EXCEPT ![Len(stack)].pc = nextPc, ![Len(stack)].i = 1]
    /\ ret' = Pending

Invoke(node, handler) ==
    /\ visited' = visited \cup {node.id}
    /\ trace' = Entered("visit")
    /\ invoked' = Append(invoked, [id |-> node.id, handler |-> handler])

StartCase ==
    /\ AtCase(StartNodeID)
    /\ LET node == nodeMap(wf)[Top.id]
           e == processStartNode(node)
       IN  /\ Invoke(node, "processStartNode")
           /\ IF e # NoErr THEN HandlerFailed(node, e)
              ELSE HandlerSucceeded(node, PlainOutput, "loop")
    /\ UNCHANGED <<aside, wf, payload, pc, contextData, result, err>>

EndCase ==
    /\ AtCase(EndNodeID)
    /\ LET node == nodeMap(wf)[Top.id]
           e == processEndNode(node)
       IN  /\ Invoke(node, "processEndNode")
           /\ IF e # NoErr THEN HandlerFailed(node, e)
              ELSE HandlerSucceeded(node, PlainOutput, "loop")
    /\ UNCHANGED <<aside, wf, payload, pc, contextData, result, err>>

FormCase ==
    /\ AtCase(FormNodeID)
    /\ LET node == nodeMap(wf)[Top.id]
           e == processFormNode(node, payload)
       IN  /\ Invoke(node, "processFormNode")
           /\ IF e # NoErr THEN HandlerFailed(node, e)
              ELSE HandlerSucceeded(node, FormOutput(payload), "loop")
    /\ UNCHANGED <<aside, wf, payload, pc, contextData, result, err>>

WeatherCase ==
    /\ AtCase(WeatherAPINodeID)
    /\ \E ext \in ExtOutcomes :
         LET node == nodeMap(wf)[Top.id]
             r == processWeatherNodeFn(fns.weather, node, payload, contextData, ext)
         IN  /\ Invoke(node, fns.weather)
             /\ contextData' = r.ctx
             /\ IF r.err # NoErr THEN HandlerFailed(node, r.err)
                ELSE HandlerSucceeded(node, WeatherOutput(payload, r.ctx), "loop")
    /\ UNCHANGED <<aside, wf, payload, pc, result, err>>

ConditionCase ==
    /\ AtCase(ConditionNodeID)
    /\ LET node == nodeMap(wf)[Top.id]
           r == processConditionNode(node, payload, contextData)
       IN  /\ Invoke(node, "processConditionNode")
           /\ IF r.err # NoErr THEN HandlerFailed(node, r.err)
              ELSE HandlerSucceeded(node, ConditionOutput(payload, contextData, r.met), "route")
    /\ UNCHANGED <<aside, wf, payload, pc, contextData, result, err>>

\* variant: the routing loop takes the first edge leaving the node, whatever
\* its label
RouteEdgeAnyLabel(w, id, conditionMet) ==
    LET ks == { k \in DOMAIN w.edges : w.edges[k].source = id }
    IN  IF ks = {} THEN 0 ELSE CHOOSE k \in ks : \A j \in ks : k <= j

\* variant: the two sentinels are exchanged
RouteEdgeSwapped(w, id, conditionMet) ==
    LET ks == { k \in DOMAIN w.edges :
                  /\ w.edges[k].source = id
                  /\ \/ conditionMet /\ w.edges[k].label = LabelNoAlertNeeded
                     \/ ~conditionMet /\ w.edges[k].label = LabelConditionMet }
    IN  IF ks = {} THEN 0 ELSE CHOOSE k \in ks : \A j \in ks : k <= j

\* variant: the last matching edge is the one followed
RouteEdgeLast(w, id, conditionMet) ==
    LET ks == { k \in DOMAIN w.edges :
                  /\ w.edges[k].source = id
                  /\ \/ conditionMet /\ w.edges[k].label = LabelConditionMet
                     \/ ~conditionMet /\ w.edges[k].label = LabelNoAlertNeeded }
    IN  IF ks = {} THEN 0 ELSE CHOOSE k \in ks : \A j \in ks : k >= j

\* the edge the routing loop returns through: the first edge of wf.Edges
\* leaving the node whose label is the sentinel of the outcome; 0 if none
RouteEdge(w, id, conditionMet) ==
    LET ks == { k \in DOMAIN w.edges :
                  /\ w.edges[k].source = id
                  /\ \/ conditionMet /\ w.edges[k].label = LabelConditionMet
                     \/ ~conditionMet /\ w.edges[k].label = LabelNoAlertNeeded }
    IN  IF ks = {} THEN 0 ELSE CHOOSE k \in ks : \A j \in ks : k <= j

\* variant: without a matching edge the condition case falls through to the
\* descent loop instead of returning the routing error
ConditionRouteFallsThrough ==
    /\ pc = "running" /\ ret = Pending /\ stack # <<>> /\ Top.pc = "route"
    /\ LET conditionMet == steps[Len(steps)].output.conditionMet
           k == RouteEdge(wf, Top.id, conditionMet)
       IN  IF k # 0
           THEN stack' = Append([stack EXCEPT ![Len(stack)].pc = "tail"],
                                Frame(wf.edges[k].target, Top.id))
           ELSE stack' = [stack EXCEPT ![Len(stack)].pc = "loop", ![Len(stack)].i = 1]
    /\ UNCHANGED <<aside, wf, payload, pc, steps, contextData, visited, ret, result, err, invoked, trace>>

\* variant: the routing failure is recorded like a handler failure, as a
\* failed step of the condition node
ConditionRouteRecordsFailure ==
    /\ pc = "running" /\ ret = Pending /\ stack # <<>> /\ Top.pc = "route"
    /\ LET conditionMet == steps[Len(steps)].output.conditionMet
           k == RouteEdge(wf, Top.id, conditionMet)
       IN  IF k # 0
           THEN /\ stack' = Append([stack EXCEPT ![Len(stack)].pc = "tail"],
                                   Frame(wf.edges[k].target, Top.id))
                /\ ret' = Pending
                /\ steps' = steps
           ELSE /\ stack' = Pop
                /\ ret' = ErrNoMatchingEdge(Top.id)
                /\ steps' = appendStep(steps, nodeMap(wf)[Top.id], StatusFailed,
                                       FailedOutput(ErrNoMatchingEdge(Top.id)))
    /\ UNCHANGED <<aside, wf, payload, pc, contextData, visited, result, err, invoked, trace>>

\* conditionMet is a local of the condition case, also stored in its step
ConditionRoute ==
    /\ pc = "running" /\ ret = Pending /\ stack # <<>> /\ Top.pc = "route"
    /\ LET conditionMet == steps[Len(steps)].output.conditionMet
           k == RouteEdge(wf, Top.id, conditionMet)
       IN  IF k # 0
           THEN /\ stack' = Append([stack EXCEPT ![Len(stack)].pc = "tail"],
                                   Frame(wf.edges[k].target, Top.id))
                /\ ret' = Pending
           ELSE /\ stack' = Pop
                /\ ret' = ErrNoMatchingEdge(Top.id)
    /\ UNCHANGED <<aside, wf, payload, pc, steps, contextData, visited, result, err, invoked, trace>>

EmailCase ==
    /\ AtCase(EmailNodeID)
    /\ LET node == nodeMap(wf)[Top.id]
           e == processEmailNodeFn(fns.email, node, payload, contextData)
       IN  /\ Invoke(node, fns.email)
           /\ IF e # NoErr THEN HandlerFailed(node, e) /\ pc' = pc
              ELSE IF node.data.emailTemplate.isNil
              THEN \* node.Data.Metadata.EmailTemplate.Subject on a nil pointer
                   /\ pc' = "panicked"
                   /\ stack' = <<>>
                   /\ UNCHANGED <<steps, ret>>
              ELSE HandlerSucceeded(node, EmailOutput(node, payload, contextData), "loop")
                   /\ pc' = pc
    /\ UNCHANGED <<aside, wf, payload, contextData, result, err>>

\* no case of the switch matches: no handler runs, no step is recorded
DefaultCase ==
    /\ AtEnter
    /\ ~VisitedGuard(Top.id)
    /\ Top.id \in NodeIds(wf)
    /\ DispatchKey(nodeMap(wf)[Top.id]) \notin
          {StartNodeID, EndNodeID, FormNodeID, WeatherAPINodeID, ConditionNodeID, EmailNodeID}
    /\ visited' = visited \cup {Top.id}
    /\ trace' = Entered("visit")
    /\ stack' = [stack EXCEPT ![Len(stack)].pc = "loop", ![Len(stack)].i = 1]
    /\ UNCHANGED <<aside, wf, payload, pc, steps, contextData, ret, result, err, invoked>>

\* variant: the edge that is followed is taken out of the definition's edges
DescendConsumingEdges ==
    /\ pc = "running" /\ ret = Pending /\ stack # <<>> /\ Top.pc = "loop"
    /\ Top.i <= Len(adj(wf, Top.id))
    /\ stack' = Append([stack EXCEPT ![Len(stack)].i = Top.i + 1],
                       Frame(adj(wf, Top.id)[Top.i], Top.id))
    /\ wf' = [wf EXCEPT !.edges =
                 SelectSeq(@, LAMBDA e : ~(e.source = Top.id
                                           /\ e.target = adj(wf, Top.id)[Top.i]))]
    /\ UNCHANGED <<aside, payload, pc, steps, contextData, visited, ret, result, err, invoked, trace>>

\* for _, next := range adj[id] { traverse(next) ... }
Descend ==
    /\ pc = "running" /\ ret = Pending /\ stack # <<>> /\ Top.pc = "loop"
    /\ Top.i <= Len(adj(wf, Top.id))
    /\ stack' = Append([stack EXCEPT ![Len(stack)].i = Top.i + 1],
                       Frame(adj(wf, Top.id)[Top.i], Top.id))
    /\ UNCHANGED <<aside, wf, payload, pc, steps, contextData, visited, ret, result, err, invoked, trace>>

LoopDone ==
    /\ pc = "running" /\ ret = Pending /\ stack # <<>> /\ Top.pc = "loop"
    /\ Top.i > Len(adj(wf, Top.id))
    /\ stack' = Pop
    /\ ret' = NoErr
    /\ UNCHANGED <<aside, wf, payload, pc, steps, contextData, visited, result, err, invoked, trace>>

\* variant: the descent loop drops the error of traverse(next) and goes on
ChildReturnedDropsError ==
    /\ pc = "running" /\ ret # Pending /\ stack # <<>>
    /\ IF Top.pc = "tail"
       THEN stack' = Pop /\ ret' = ret
       ELSE stack' = stack /\ ret' = Pending
    /\ UNCHANGED <<aside, wf, payload, pc, steps, contextData, visited, result, err, invoked, trace>>

\* the caller receives the value of traverse(...): the routing case returns
\* it as is, the descent loop returns it if non-nil and goes on otherwise
ChildReturned ==
    /\ pc = "running" /\ ret # Pending /\ stack # <<>>
    /\ IF Top.pc = "tail" \/ ret # NoErr
       THEN stack' = Pop /\ ret' = ret
       ELSE stack' = stack /\ ret' = Pending
    /\ UNCHANGED <<aside, wf, payload, pc, steps, contextData, visited, result, err, invoked, trace>>

\* the ExecutionResult processNodes builds from what traverse("start") returned
BuildResult(e, ss) ==
    [isNil |-> FALSE, executedAt |-> Now,
     status |-> IF e # NoErr THEN StatusFailed ELSE StatusCompleted,
     steps |-> ss]

Finish ==
    /\ pc = "running" /\ ret # Pending /\ stack = <<>>
    /\ pc' = "done"
    /\ result' = BuildResult(ret, steps)
    /\ err' = ret
    /\ UNCHANGED <<aside, wf, payload, steps, contextData, visited, stack, ret, invoked, trace>>

Next ==
    \/ ValidationFails
    \/ BeginTraverse
    \/ TraverseVisited
    \/ TraverseNotFound
    \/ StartCase
    \/ EndCase
    \/ FormCase
    \/ WeatherCase
    \/ ConditionCase
    \/ ConditionRoute
    \/ EmailCase
    \/ DefaultCase
    \/ Descend
    \/ LoopDone
    \/ ChildReturned
    \/ Finish

Spec == Init /\ [][Next]_vars

\* processNodes is sequential code on its own goroutine: while a statement
\* is left to execute, one is executed
SpecLive == Spec /\ WF_vars(Next)

(***************************************************************************)
(* HandleExecuteWorkflow's use of what processNodes returns, and the JSON  *)
(* encoding of an ExecutionResult.  A Go value held in an interface is a   *)
(* record of its dynamic type and its value; a JSON value is a record of   *)
(* its kind and its content.  encoding/json writes int64 and float64 as    *)
(* JSON numbers and reads any JSON number placed in an interface{} as a    *)
(* float64.                                                                *)
(***************************************************************************)
ErrInternalServerError == "internal server error"

GoInt64(v) == [type |-> "int64", val |-> v]
GoString(v) == [type |-> "string", val |-> v]
GoBool(v) == [type |-> "bool", val |-> v]
GoMap(f) == [type |-> "map", val |-> f]

\* the Go value stored under key k of a step's output map
GoValue(k, x) ==
    IF k = "duration" THEN GoInt64(x)
    ELSE IF k = "threshold" THEN Float64(x)
    ELSE IF k \in {"temperature", "actualValue"} THEN x
    ELSE IF k \in {"conditionMet", "emailSent"} THEN GoBool(x)
    ELSE IF k = "emailDraft" THEN GoMap([f \in DOMAIN x |-> GoString(x[f])])
    ELSE GoString(x)

GoOutput(out) == [k \in DOMAIN out |-> GoValue(k, out[k])]

\* a StepResult / ExecutionResult with its output maps as Go values
GoStep(st) == [st EXCEPT !.output = GoOutput(st.output)]

GoResult(res) ==
    [executedAt |-> res.executedAt, status |-> res.status,
     steps |-> [s \in DOMAIN res.steps |-> GoStep(res.steps[s])]]

JString(v) == [kind |-> "string", v |-> v]
JNumber(v) == [kind |-> "number", v |-> v]
JBool(v) == [kind |-> "bool", v |-> v]
JObject(f) == [kind |-> "object", v |-> f]
JArray(q) == [kind |-> "array", v |-> q]

RECURSIVE marshalValue(_)
marshalValue(g) ==
    IF g.type \in {"int64", "float64"} THEN JNumber(g.val)
    ELSE IF g.type = "bool" THEN JBool(g.val)
    ELSE IF g.type = "map" THEN JObject([f \in DOMAIN g.val |-> marshalValue(g.val[f])])
    ELSE JString(g.val)

\* variant: the output field is tagged json:"-"
marshalStepWithoutOutput(st) ==
    JObject([nodeId |-> JString(st.nodeId), type |-> JString(st.type),
             label |-> JString(st.label),
             description |-> JString(st.description),
             status |-> JString(st.status)])

\* the struct tags of StepResult; output carries omitempty
marshalStep(st) ==
    LET fields == [nodeId |-> JString(st.nodeId), type |-> JString(st.type),
                   label |-> JString(st.label),
                   description |-> JString(st.description),
                   status |-> JString(st.status)]
    IN  IF DOMAIN st.output = {} THEN JObject(fields)
        ELSE JObject(("output" :> marshalValue(GoMap(st.output))) @@ fields)

\* json.Marshal(executionResults)
Marshal(res) ==
    JObject([executedAt |-> JString(res.executedAt),
             status |-> JString(res.status),
             steps |-> JArray([s \in DOMAIN res.steps |-> marshalStep(res.steps[s])])])

RECURSIVE unmarshalValue(_)
\* a JSON value decoded into an interface{}
unmarshalValue(j) ==
    IF j.kind = "number" THEN Float64(j.v)
    ELSE IF j.kind = "bool" THEN GoBool(j.v)
    ELSE IF j.kind = "object" THEN GoMap([f \in DOMAIN j.v |-> unmarshalValue(j.v[f])])
    ELSE GoString(j.v)

unmarshalStep(j) ==
    [nodeId |-> j.v.nodeId.v, type |-> j.v.type.v, label |-> j.v.label.v,
     description |-> j.v.description.v, status |-> j.v.status.v,
     output |-> IF "output" \in DOMAIN j.v THEN unmarshalValue(j.v.output).val
                ELSE <<>>]

\* json.Unmarshal(bytes, &ExecutionResult{})
Unmarshal(j) ==
    [executedAt |-> j.v.executedAt.v, status |-> j.v.status.v,
     steps |-> [s \in DOMAIN j.v.steps.v |-> unmarshalStep(j.v.steps.v[s])]]

\* `{"error":"` + err.Error() + `"}`
errorToJSON(e) == JObject([error |-> JString(e)])

\* what HandleExecuteWorkflow writes once processNodes has returned (res, e)
HandleExecuteWorkflow(res, e) ==
    IF e # NoErr
    THEN [code |-> "StatusInternalServerError",
          body |-> errorToJSON(ErrInternalServerError)]
    ELSE [code |-> "StatusOK", body |-> Marshal(GoResult(res))]

(***************************************************************************)
(* The handlers called on their own, the way TestProcessConditionNode and  *)
(* TestProcessFormNode call them: a payload and a context map are built,   *)
(* one handler is applied and its return values are kept in returned.      *)
(***************************************************************************)
Operators ==
    { "greater_than", "less_than", "equals", "greater_than_or_equal",
      "less_than_or_equal", "unsupported" }

HandlerTemps == { 155, 210 }

HandlerThresholds == { 100, 155, 200, 210 }

HandlerPayloads ==
    { Payload(n, e, c, op, th) :
        n \in {"", "Alice"}, e \in {"", "alice@example.com"},
        c \in {"", "Sydney"}, op \in Operators, th \in HandlerThresholds }

\* map[string]any{}, {"weather.temperature": <float64>} and
\* {"weather.temperature": "not a float"}
HandlerContexts ==
    { EmptyContext }
    \cup { (TemperatureKey :> Float64(t)) : t \in HandlerTemps }
    \cup { (TemperatureKey :> [type |-> "string", val |-> 0]) }

InitHandlers ==
    /\ wf = MinimalWorkflow
    /\ payload \in HandlerPayloads
    /\ contextData \in HandlerContexts
    /\ pc = "init"
    /\ steps = <<>>
    /\ visited = {}
    /\ stack = <<>>
    /\ ret = Pending
    /\ result = NilResult
    /\ err = NoErr
    /\ invoked = <<>>
    /\ trace = <<>>
    /\ returned = NoReturn
    /\ other = NoOther
    /\ fns = DefaultFns
    /\ mock = FALSE

CallConditionNode ==
    /\ pc = "init"
    /\ LET r == processConditionNode(Node(ConditionNodeID, "condition", FALSE),
                                     payload, contextData)
       IN  returned' = [fn |-> "processConditionNode", met |-> r.met, err |-> r.err]
    /\ pc' = "done"
    /\ UNCHANGED <<outside, wf, payload, steps, contextData, visited, stack, ret,
                   result, err, invoked, trace>>

CallFormNode ==
    /\ pc = "init"
    /\ returned' = [fn |-> "processFormNode", met |-> FALSE,
                    err |-> processFormNode(Node(FormNodeID, "form", FALSE), payload)]
    /\ pc' = "done"
    /\ UNCHANGED <<outside, wf, payload, steps, contextData, visited, stack, ret,
                   result, err, invoked, trace>>

\* the answers a lookup can get when a handler is called on its own: one
\* or two geocoding results, in either order
HandlerExtOutcomes ==
    ExtAnswers({ <<"lat-a,lon-a">>, <<"lat-a,lon-a", "lat-b,lon-b">>,
                 <<"lat-b,lon-b", "lat-a,lon-a">> }, HandlerTemps)

\* contextData is the map before the call; ctx the map after it, calls the
\* requests the call issued and ext the answers it got
CallWeatherNode ==
    /\ pc = "init"
    /\ \E ext \in HandlerExtOutcomes :
          LET r == processWeatherNode(Node(WeatherAPINodeID, "integration", FALSE),
                                      payload, contextData, ext)
          IN  returned' = [fn |-> "processWeatherNode", met |-> FALSE, err |-> r.err,
                           ctx |-> r.ctx, calls |-> r.calls, ext |-> ext]
    /\ pc' = "done"
    /\ UNCHANGED <<outside, wf, payload, steps, contextData, visited, stack, ret,
                   result, err, invoked, trace>>

NextHandlers == CallConditionNode \/ CallFormNode \/ CallWeatherNode

SpecHandlers == InitHandlers /\ [][NextHandlers]_vars

(***************************************************************************)
(* processNodes as a function from its arguments to what it returns, for   *)
(* one call running by itself from its own empty steps, contextData and    *)
(* visited.  ext is the answer of the external services to the weather     *)
(* lookup and f the handler variables in force.                            *)
(***************************************************************************)
AloneStart == [steps |-> <<>>, ctx |-> EmptyContext, visited |-> {},
               err |-> NoErr, panicked |-> FALSE]

AloneFailed(st, node, e) ==
    [st EXCEPT !.steps = appendStep(@, node, StatusFailed, FailedOutput(e))]

AloneCompleted(st, node, output) ==
    [st EXCEPT !.steps = appendStep(@, node, StatusCompleted, output)]

RECURSIVE traverseAlone(_, _, _, _, _, _)
RECURSIVE descendAlone(_, _, _, _, _, _)

\* for _, next := range adj[id]
descendAlone(w, p, ext, f, st, targets) ==
    IF targets = <<>> THEN st
    ELSE LET s2 == traverseAlone(w, p, ext, f, st, Head(targets))
         IN  IF s2.err # NoErr \/ s2.panicked THEN s2
             ELSE descendAlone(w, p, ext, f, s2, Tail(targets))

traverseAlone(w, p, ext, f, st, id) ==
    IF id \in st.visited THEN st
    ELSE
    LET v == [st EXCEPT !.visited = @ \cup {id}] IN
    IF id \notin NodeIds(w) THEN [v EXCEPT !.err = ErrNodeNotFound(id)]
    ELSE
    LET node == nodeMap(w)[id]
        key == DispatchKey(node)
    IN  IF key = StartNodeID THEN
            LET e == processStartNode(node)
            IN  IF e # NoErr THEN AloneFailed(v, node, e)
                ELSE descendAlone(w, p, ext, f,
                         AloneCompleted(v, node, PlainOutput), adj(w, id))
        ELSE IF key = EndNodeID THEN
            LET e == processEndNode(node)
            IN  IF e # NoErr THEN AloneFailed(v, node, e)
                ELSE descendAlone(w, p, ext, f,
                         AloneCompleted(v, node, PlainOutput), adj(w, id))
        ELSE IF key = FormNodeID THEN
            LET e == processFormNode(node, p)
            IN  IF e # NoErr THEN AloneFailed(v, node, e)
                ELSE descendAlone(w, p, ext, f,
                         AloneCompleted(v, node, FormOutput(p)), adj(w, id))
        ELSE IF key = WeatherAPINodeID THEN
            LET r == processWeatherNodeFn(f.weather, node, p, v.ctx, ext)
                c == [v EXCEPT !.ctx = r.ctx]
            IN  IF r.err # NoErr THEN AloneFailed(c, node, r.err)
                ELSE descendAlone(w, p, ext, f,
                         AloneCompleted(c, node, WeatherOutput(p, r.ctx)), adj(w, id))
        ELSE IF key = ConditionNodeID THEN
            LET r == processConditionNode(node, p, v.ctx)
            IN  IF r.err # NoErr THEN AloneFailed(v, node, r.err)
                ELSE LET k == RouteEdge(w, id, r.met)
                         c == AloneCompleted(v, node, ConditionOutput(p, v.ctx, r.met))
                     IN  IF k = 0 THEN [c EXCEPT !.err = ErrNoMatchingEdge(id)]
                         ELSE traverseAlone(w, p, ext, f, c, w.edges[k].target)
        ELSE IF key = EmailNodeID THEN
            LET e == processEmailNodeFn(f.email, node, p, v.ctx)
            IN  IF e # NoErr THEN AloneFailed(v, node, e)
                ELSE IF node.data.emailTemplate.isNil THEN [v EXCEPT !.panicked = TRUE]
                ELSE descendAlone(w, p, ext, f,
                         AloneCompleted(v, node, EmailOutput(node, p, v.ctx)), adj(w, id))
        ELSE descendAlone(w, p, ext, f, v, adj(w, id))

processNodesAlone(w, p, ext, f) ==
    IF Validate(w) # NoErr THEN
        [panicked |-> FALSE, result |-> NilResult, err |-> Validate(w),
         visited |-> {}, ctx |-> EmptyContext]
    ELSE LET s == traverseAlone(w, p, ext, f, AloneStart, StartNodeID)
         IN  [panicked |-> s.panicked,
              result |-> IF s.panicked THEN NilResult ELSE BuildResult(s.err, s.steps),
              err |-> s.err, visited |-> s.visited, ctx |-> s.ctx]

(***************************************************************************)
(* Two calls of processNodes in one process.  One call runs at a time; the *)
(* other waits in `other` with its own wf, payload and locals, and Switch  *)
(* hands the processor over between any two steps, so every interleaving   *)
(* of the two calls (and each call run before the other) is a behaviour.   *)
(* A call of the test table that carries overrides assigns the handler     *)
(* variables before processNodes (Setup, from pc = "setup") and assigns    *)
(* the defaults back after it (Teardown, to pc = "torn"); the handler      *)
(* variables belong to the package, not to the call.                       *)
(***************************************************************************)
\* an edge to a node that is not declared, after one to a node no case matches
GhostWorkflow ==
    [nodes |-> FullNodes,
     edges |-> << Edge(StartNodeID, "x", ""), Edge(StartNodeID, "ghost", "") >>]

TwoCallWorkflows ==
    { HappyPathWorkflow, EmailOnlyWorkflow, DiamondWorkflow, OnlyEndWorkflow,
      GhostWorkflow }

TwoCallPayloads ==
    { Payload("Jane", "jane@example.com", "Melbourne", "equals", 210),
      Payload("Jane", "jane@example.com", "", "greater_than", 210) }

CallAtStart(w, p, m) ==
    [wf |-> w, payload |-> p, mock |-> m,
     pc |-> IF m THEN "setup" ELSE "init",
     steps |-> <<>>, contextData |-> EmptyContext, visited |-> {},
     stack |-> <<>>, ret |-> Pending, result |-> NilResult, err |-> NoErr,
     invoked |-> <<>>, trace |-> <<>>]

\* the call in progress, as it is put aside
Current ==
    [wf |-> wf, payload |-> payload, mock |-> mock, pc |-> pc,
     steps |-> steps, contextData |-> contextData, visited |-> visited,
     stack |-> stack, ret |-> ret, result |-> result, err |-> err,
     invoked |-> invoked, trace |-> trace]

\* variant: contextData is one map of the package, seen by every call
ContextOfPackage(call) == contextData

\* contextData := make(map[string]any) is a local of the call
ContextOf(call) == call.contextData

InitTwoCalls ==
    /\ returned = NoReturn
    /\ fns = DefaultFns
    /\ wf \in TwoCallWorkflows
    /\ payload \in TwoCallPayloads
    /\ mock \in BOOLEAN
    /\ pc = CallAtStart(wf, payload, mock).pc
    /\ steps = <<>>
    /\ contextData = EmptyContext
    /\ visited = {}
    /\ stack = <<>>
    /\ ret = Pending
    /\ result = NilResult
    /\ err = NoErr
    /\ invoked = <<>>
    /\ trace = <<>>
    /\ other \in { CallAtStart(w, p, m) :
                     w \in TwoCallWorkflows, p \in TwoCallPayloads, m \in BOOLEAN }

Switch ==
    /\ other' = [Current EXCEPT !.contextData = ContextOf(Current)]
    /\ wf' = other.wf
    /\ payload' = other.payload
    /\ mock' = other.mock
    /\ pc' = other.pc
    /\ steps' = other.steps
    /\ contextData' = ContextOf(other)
    /\ visited' = other.visited
    /\ stack' = other.stack
    /\ ret' = other.ret
    /\ result' = other.result
    /\ err' = other.err
    /\ invoked' = other.invoked
    /\ trace' = other.trace
    /\ UNCHANGED <<returned, fns>>

\* tt.setup(): processWeatherNodeFn = func..., processEmailNodeFn = func...
Setup ==
    /\ pc = "setup"
    /\ fns' = MockFns
    /\ pc' = "init"
    /\ UNCHANGED <<returned, other, mock, wf, payload, steps, contextData, visited,
                   stack, ret, result, err, invoked, trace>>

\* the deferred tt.teardown(): the two variables get the default handlers
\* back once processNodes has returned (no workflow of TwoCallWorkflows makes
\* it panic)
Teardown ==
    /\ pc = "done"
    /\ mock
    /\ fns' = DefaultFns
    /\ pc' = "torn"
    /\ UNCHANGED <<returned, other, mock, wf, payload, steps, contextData, visited,
                   stack, ret, result, err, invoked, trace>>

NextTwoCalls == Next \/ Switch \/ Setup \/ Teardown

SpecTwoCalls == InitTwoCalls /\ [][NextTwoCalls]_vars


(***************************************************************************)
(* Vocabulary of the properties                                            *)
(***************************************************************************)
HasNodeWithId(id) == \E k \in DOMAIN wf.nodes : wf.nodes[k].id = id

HasFailedStep == \E s \in DOMAIN steps : steps[s].status = StatusFailed

\* the traverse calls made so far as <<caller, callee>> pairs, the one whose
\* activation has not yet passed the visited guard included
Calls ==
    [k \in 1..Len(trace) |-> <<trace[k].from, trace[k].to>>]
    \o (IF stack # <<>> /\ Top.pc = "enter" THEN << <<Top.from, Top.id>> >> ELSE <<>>)

CalleesOf(id) ==
    LET mine == SelectSeq(Calls, LAMBDA c : c[1] = id)
    IN  [k \in 1..Len(mine) |-> mine[k][2]]

\* the ids the walk marked visited, in order
VisitOrder ==
    LET vs == SelectSeq(trace, LAMBDA e : e.kind # "skip")
    IN  [k \in 1..Len(vs) |-> vs[k].to]

\* targets of the edges leaving id, by position in the edge list
OutEdges(id) == SelectSeq(wf.edges, LAMBDA e : e.source = id)

OutTargets(id) == [k \in 1..Len(OutEdges(id)) |-> OutEdges(id)[k].target]

IsPrefix(a, b) == Len(a) <= Len(b) /\ SubSeq(b, 1, Len(a)) = a

Sentinel(conditionMet) ==
    IF conditionMet THEN LabelConditionMet ELSE LabelNoAlertNeeded

\* the completed step of the condition node, 0 if there is none
ConditionStep ==
    LET ss == { s \in DOMAIN steps :
                  steps[s].nodeId = ConditionNodeID /\ steps[s].status = StatusCompleted }
    IN  IF ss = {} THEN 0 ELSE CHOOSE s \in ss : TRUE

(***************************************************************************)
(* C1  Once a node handler has failed no further node is visited: a failed *)
(* StepResult is the last element of Steps.                                *)
(***************************************************************************)
C1_FailedStepIsLast ==
    \A s \in DOMAIN steps : steps[s].status = StatusFailed => s = Len(steps)

(***************************************************************************)
(* C2  When processNodes has recorded a failed StepResult it returns an    *)
(* ExecutionResult of status "failed" together with a non-nil error.       *)
(***************************************************************************)
C2_FailedStepFailsTraversal ==
    (pc = "done" /\ HasFailedStep) =>
        /\ ~result.isNil
        /\ result.status = StatusFailed
        /\ err # NoErr

(***************************************************************************)
(* C3  From a condition node whose handler succeeded traverse is called    *)
(* for at most one target, and that target is the target of an edge of the *)
(* condition node labelled with the sentinel of the outcome.               *)
(***************************************************************************)
C3_ConditionFollowsOneEdge ==
    LET callees == CalleesOf(ConditionNodeID)
    IN  /\ Len(callees) <= 1
        /\ Len(callees) = 1 =>
              /\ ConditionStep # 0
              /\ \E k \in DOMAIN wf.edges :
                    /\ wf.edges[k].source = ConditionNodeID
                    /\ wf.edges[k].target = callees[1]
                    /\ wf.edges[k].label =
                          Sentinel(steps[ConditionStep].output.conditionMet)

\* the condition node has two outgoing edges and only the labelled one was taken
C3_Witness ==
    /\ pc = "done"
    /\ Len(CalleesOf(ConditionNodeID)) = 1
    /\ \E k \in DOMAIN wf.edges :
          /\ wf.edges[k].source = ConditionNodeID
          /\ wf.edges[k].label = ""
          /\ wf.edges[k].target \notin visited

(***************************************************************************)
(* C4  A condition node that evaluated successfully and has no outgoing    *)
(* edge labelled for the outcome makes processNodes return the "no         *)
(* matching conditional edge" error with status "failed", the condition    *)
(* node being the last node visited.                                       *)
(***************************************************************************)
C4_NoMatchingEdgeFails ==
    (/\ pc = "done"
     /\ ConditionStep # 0
     /\ ~\E k \in DOMAIN wf.edges :
            /\ wf.edges[k].source = ConditionNodeID
            /\ wf.edges[k].label = Sentinel(steps[ConditionStep].output.conditionMet))
    => /\ err = ErrNoMatchingEdge(ConditionNodeID)
       /\ ~result.isNil
       /\ result.status = StatusFailed
       /\ VisitOrder[Len(VisitOrder)] = ConditionNodeID
       /\ Calls[Len(Calls)][2] = ConditionNodeID

\* the routing failed although the start node still had an unvisited target
C4_Witness ==
    /\ pc = "done"
    /\ err = ErrNoMatchingEdge(ConditionNodeID)
    /\ Len(OutEdges(ConditionNodeID)) > 0
    /\ \E k \in DOMAIN wf.edges :
          /\ wf.edges[k].source = StartNodeID
          /\ wf.edges[k].target \in NodeIds(wf) \ visited

(***************************************************************************)
(* C5  On a routing failure the trace ends with the condition node's own   *)
(* completed StepResult, which is the only step of that node: no failed    *)
(* step and no step of an edge target is added for the failure.            *)
(***************************************************************************)
C5_RoutingFailureAddsNoStep ==
    (pc = "done" /\ err = ErrNoMatchingEdge(ConditionNodeID)) =>
        /\ steps # <<>>
        /\ steps[Len(steps)].nodeId = ConditionNodeID
        /\ steps[Len(steps)].status = StatusCompleted
        /\ result.steps = steps
        /\ \A s \in DOMAIN steps :
              steps[s].nodeId = ConditionNodeID => s = Len(steps)

\* the routing failed at a condition node that has edges, none of them matching
C5_Witness ==
    /\ pc = "done"
    /\ err = ErrNoMatchingEdge(ConditionNodeID)
    /\ Len(OutEdges(ConditionNodeID)) = 2
    /\ Len(steps) = 3

(***************************************************************************)
(* C6  On a workflow without a node of id "start" processNodes returns     *)
(* ErrMissingStartNode and a nil result; no handler is invoked, no step    *)
(* recorded and no node visited.                                           *)
(***************************************************************************)
C6_MissingStartNode ==
    ~HasNodeWithId(StartNodeID) =>
        /\ pc \in {"init", "done"}
        /\ steps = <<>> /\ invoked = <<>> /\ visited = {} /\ trace = <<>>
        /\ pc = "done" => result.isNil /\ err = ErrMissingStartNode

C6_Witness ==
    /\ pc = "done"
    /\ ~HasNodeWithId(StartNodeID)
    /\ HasNodeWithId(FormNodeID)
    /\ Len(wf.edges) = 2

(***************************************************************************)
(* C7  On a workflow with a "start" node and without a node of id "end"    *)
(* processNodes returns ErrMissingEndNode and a nil result; no handler is  *)
(* invoked and no step recorded: the start node is not executed.           *)
(***************************************************************************)
C7_MissingEndNode ==
    (HasNodeWithId(StartNodeID) /\ ~HasNodeWithId(EndNodeID)) =>
        /\ pc \in {"init", "done"}
        /\ steps = <<>> /\ invoked = <<>> /\ visited = {} /\ trace = <<>>
        /\ pc = "done" => result.isNil /\ err = ErrMissingEndNode

C7_Witness ==
    /\ pc = "done"
    /\ HasNodeWithId(StartNodeID) /\ ~HasNodeWithId(EndNodeID)
    /\ \E k \in DOMAIN wf.edges : wf.edges[k].source = StartNodeID

(***************************************************************************)
(* C8  Within one processNodes call no node id appears in more than one    *)
(* StepResult and no node has its handler invoked more than once, whatever *)
(* the shape of the graph.                                                 *)
(***************************************************************************)
C8_NodeExecutedAtMostOnce ==
    /\ \A s, t \in DOMAIN steps : steps[s].nodeId = steps[t].nodeId => s = t
    /\ \A a, b \in DOMAIN invoked : invoked[a].id = invoked[b].id => a = b
    /\ \A a, b \in DOMAIN VisitOrder : VisitOrder[a] = VisitOrder[b] => a = b

\* a node with a recorded step was reached again and skipped
C8_Witness ==
    /\ pc = "done"
    /\ \E k \in DOMAIN trace :
          /\ trace[k].kind = "skip"
          /\ \E s \in DOMAIN steps : steps[s].nodeId = trace[k].to

(***************************************************************************)
(* C9  The handler invoked for a visited node is the handler of the node's *)
(* type, whatever its id, and a StepResult is recorded for it.             *)
(***************************************************************************)
HandlerOfType(type) ==
    CASE type = "start" -> "processStartNode"
      [] type = "end" -> "processEndNode"
      [] type = "form" -> "processFormNode"
      [] type \in {"integration", "weather-api"} -> "processWeatherNode"
      [] type = "condition" -> "processConditionNode"
      [] type = "email" -> "processEmailNode"
      [] OTHER -> "none"

C9_DispatchOnType ==
    pc # "panicked" =>
        \A id \in visited \cap NodeIds(wf) :
            LET node == nodeMap(wf)[id]
            IN  HandlerOfType(node.type) # "none" =>
                    /\ \E k \in DOMAIN invoked :
                          /\ invoked[k].id = id
                          /\ invoked[k].handler = HandlerOfType(node.type)
                    /\ \E s \in DOMAIN steps : steps[s].nodeId = id

(***************************************************************************)
(* C10  A non-condition node whose handler succeeded has traverse called   *)
(* for its outgoing edge targets in edge-declaration order, for all of     *)
(* them when the traversal returns no error; without a condition node and  *)
(* without a failed handler the nodes are visited, and their steps         *)
(* recorded, in depth-first pre-order from start.                          *)
(***************************************************************************)
RECURSIVE PreOrder(_, _)
\* depth-first pre-order with an explicit work list: todo holds the ids
\* still to be entered, seen the ids already listed
PreOrder(todo, seen) ==
    IF todo = <<>> THEN <<>>
    ELSE IF Head(todo) \in seen THEN PreOrder(Tail(todo), seen)
    ELSE <<Head(todo)>>
         \o PreOrder(OutTargets(Head(todo)) \o Tail(todo), seen \cup {Head(todo)})

HasHandler(id) ==
    id \in {StartNodeID, EndNodeID, FormNodeID, WeatherAPINodeID,
            ConditionNodeID, EmailNodeID}

StepIds == [s \in 1..Len(steps) |-> steps[s].nodeId]

RECURSIVE ReachFrom(_)
ReachFrom(S) ==
    LET more == S \cup { wf.edges[k].target :
                           k \in { j \in DOMAIN wf.edges : wf.edges[j].source \in S } }
    IN  IF more = S THEN S ELSE ReachFrom(more)

Reachable == ReachFrom({StartNodeID})

StraightWorkflow ==
    /\ HasNodeWithId(StartNodeID) /\ HasNodeWithId(EndNodeID)
    /\ \A id \in Reachable : HasNodeWithId(id) /\ HasHandler(id)
    /\ ConditionNodeID \notin Reachable

C11_CompletesOverReachable ==
    (pc \in {"done", "panicked"} /\ StraightWorkflow /\ ~HasFailedStep) =>
        /\ pc = "done"
        /\ err = NoErr
        /\ ~result.isNil
        /\ result.status = StatusCompleted
        /\ { result.steps[s].nodeId : s \in DOMAIN result.steps } = Reachable
        /\ \A s \in DOMAIN result.steps : result.steps[s].status = StatusCompleted

(***************************************************************************)
(* C12  The workflow of start and end joined by the edge start -> end      *)
(* completes for any payload: nil error, status "completed" and exactly    *)
(* two steps, start then end, both "completed".                            *)
(***************************************************************************)
C12_MinimalWorkflowCompletes ==
    wf = MinimalWorkflow =>
        /\ pc # "panicked"
        /\ pc = "done" =>
              /\ err = NoErr
              /\ ~result.isNil
              /\ result.status = StatusCompleted
              /\ Len(result.steps) = 2
              /\ result.steps[1].nodeId = StartNodeID
              /\ result.steps[2].nodeId = EndNodeID
              /\ \A s \in 1..2 : result.steps[s].status = StatusCompleted

\* the minimal workflow has returned, called with a payload whose form is empty
C12_Witness ==
    /\ wf = MinimalWorkflow
    /\ pc = "done"
    /\ payload.formData.name = ""

(***************************************************************************)
(* C13  The six-node chain with a valid form, a weather lookup that wrote  *)
(* temperature T and an operator and threshold that hold of T returns      *)
(* status "completed" with the six steps start, form, weather-api,         *)
(* condition, email, end, all "completed".                                 *)
(***************************************************************************)
ValidForm ==
    /\ payload.formData.name # ""
    /\ payload.formData.email # ""
    /\ payload.formData.city # ""

\* the comparison an operator name stands for
Holds(op, t, th) ==
    \/ op = "greater_than" /\ t > th
    \/ op = "less_than" /\ t < th
    \/ op = "equals" /\ t = th
    \/ op = "greater_than_or_equal" /\ t >= th
    \/ op = "less_than_or_equal" /\ t <= th

C13_SixNodeChainCompletes ==
    (/\ wf = HappyPathWorkflow
     /\ pc \in {"done", "panicked"}
     /\ ValidForm
     /\ TemperatureKey \in DOMAIN contextData
     /\ Holds(payload.condition.operator, contextData[TemperatureKey].val,
              payload.condition.threshold))
    => /\ pc = "done"
       /\ err = NoErr
       /\ ~result.isNil
       /\ result.status = StatusCompleted
       /\ [s \in 1..Len(result.steps) |-> result.steps[s].nodeId] =
             << StartNodeID, FormNodeID, WeatherAPINodeID, ConditionNodeID,
                EmailNodeID, EndNodeID >>
       /\ \A s \in DOMAIN result.steps : result.steps[s].status = StatusCompleted

C13_Witness ==
    /\ wf = HappyPathWorkflow
    /\ pc = "done"
    /\ ValidForm
    /\ TemperatureKey \in DOMAIN contextData
    /\ contextData[TemperatureKey].val = payload.condition.threshold
    /\ payload.condition.operator = "equals"
    /\ Len(steps) = 6

(***************************************************************************)
(* C14  When the condition is false and the condition node has a           *)
(* condition-met edge to email and a condition-not-met edge to end (email  *)
(* having no other way in, end not yet visited, every edge leading to an   *)
(* existing node), Steps has no entry for email, the end step directly     *)
(* follows the condition step and the status is "completed".               *)
(***************************************************************************)
BranchingWorkflow ==
    /\ \E k \in DOMAIN wf.edges :
          wf.edges[k] = Edge(ConditionNodeID, EmailNodeID, LabelConditionMet)
    /\ \E k \in DOMAIN wf.edges :
          wf.edges[k] = Edge(ConditionNodeID, EndNodeID, LabelNoAlertNeeded)
    /\ \A k \in DOMAIN wf.edges :
          /\ HasNodeWithId(wf.edges[k].target)
          /\ wf.edges[k].target = EmailNodeID =>
                wf.edges[k] = Edge(ConditionNodeID, EmailNodeID, LabelConditionMet)
          /\ (wf.edges[k].source = ConditionNodeID
                /\ wf.edges[k].label = LabelNoAlertNeeded) =>
                wf.edges[k].target = EndNodeID

C14_EmailSkippedWhenNotMet ==
    (/\ pc \in {"done", "panicked"}
     /\ BranchingWorkflow
     /\ ConditionStep # 0
     /\ ~steps[ConditionStep].output.conditionMet
     /\ \A s \in 1..ConditionStep : steps[s].nodeId # EndNodeID)
    => /\ pc = "done"
       /\ \A s \in DOMAIN steps : steps[s].nodeId # EmailNodeID
       /\ EmailNodeID \notin visited
       /\ ConditionStep < Len(steps)
       /\ steps[ConditionStep + 1].nodeId = EndNodeID
       /\ steps[ConditionStep + 1].status = StatusCompleted
       /\ result.status = StatusCompleted
       /\ err = NoErr

C14_Witness ==
    /\ pc = "done"
    /\ BranchingWorkflow
    /\ ConditionStep # 0
    /\ ~steps[ConditionStep].output.conditionMet
    /\ steps[Len(steps)].nodeId = EndNodeID

(***************************************************************************)
(* C15  Every handler invocation has exactly one StepResult, for its node  *)
(* and in invocation order; a failed StepResult carries an error message   *)
(* and the duration, and its node has no "completed" StepResult.           *)
(***************************************************************************)
C15_OneStepPerInvocation ==
    /\ Len(steps) = Len(invoked)
    /\ \A k \in DOMAIN steps :
          /\ steps[k].nodeId = invoked[k].id
          /\ steps[k].status = StatusFailed =>
                /\ DOMAIN steps[k].output = {"error", "duration"}
                /\ steps[k].output.error # NoErr
                /\ steps[k].output.duration = Elapsed
                /\ \A j \in DOMAIN steps :
                      steps[j].nodeId = steps[k].nodeId => j = k

(***************************************************************************)
(* C16  When processConditionNode returns no error its boolean is the      *)
(* comparison its operator names, applied to the context temperature and   *)
(* the threshold (true at the boundary for equals and the _or_equal        *)
(* forms), and the call leaves the context as it was.                      *)
(***************************************************************************)
ConditionReturned == returned.fn = "processConditionNode"

C16_ConditionIsTheComparison ==
    /\ [](ConditionReturned /\ returned.err = NoErr =>
            returned.met = Holds(payload.condition.operator,
                                 contextData[TemperatureKey].val,
                                 payload.condition.threshold))
    /\ [][contextData' = contextData]_vars

\* greater_than_or_equal at the boundary
C16_Witness ==
    /\ ConditionReturned
    /\ returned.err = NoErr
    /\ payload.condition.operator = "greater_than_or_equal"
    /\ contextData[TemperatureKey].val = payload.condition.threshold
    /\ returned.met

(***************************************************************************)
(* C17  processConditionNode returns an error, with false, in exactly      *)
(* three cases, the first that applies winning: temperature key absent,    *)
(* value not a float64, operator not one of the five names.  The three     *)
(* messages differ.                                                        *)
(***************************************************************************)
RecognisedOperators ==
    { "greater_than", "less_than", "equals", "greater_than_or_equal",
      "less_than_or_equal" }

C17_ConditionFailureOrder ==
    ConditionReturned =>
        /\ returned.err =
              IF TemperatureKey \notin DOMAIN contextData THEN ErrTempMissing
              ELSE IF contextData[TemperatureKey].type # "float64" THEN ErrTempNotFloat
              ELSE IF payload.condition.operator \notin RecognisedOperators
                   THEN ErrUnsupportedOperator(payload.condition.operator)
              ELSE NoErr
        /\ returned.err # NoErr => ~returned.met
        /\ ErrTempMissing # ErrTempNotFloat
        /\ ErrUnsupportedOperator(payload.condition.operator)
              \notin {ErrTempMissing, ErrTempNotFloat, NoErr}

\* no temperature and an unrecognised operator: reported as missing
C17_Witness ==
    /\ ConditionReturned
    /\ TemperatureKey \notin DOMAIN contextData
    /\ payload.condition.operator \notin RecognisedOperators
    /\ returned.err = ErrTempMissing

(***************************************************************************)
(* C18  processFormNode returns nil exactly when name, email and city are  *)
(* all non-empty; otherwise the error of the first empty field in the      *)
(* order name, email, city, each field having its own error.               *)
(***************************************************************************)
FormReturned == returned.fn = "processFormNode"

C18_FormValidationOrder ==
    FormReturned =>
        /\ returned.err = NoErr <=> ValidForm
        /\ payload.formData.name = "" => returned.err = ErrMissingFormFieldName
        /\ (payload.formData.name # "" /\ payload.formData.email = "") =>
              returned.err = ErrMissingFormFieldEmail
        /\ (payload.formData.name # "" /\ payload.formData.email # ""
              /\ payload.formData.city = "") =>
              returned.err = ErrMissingFormFieldCity
        /\ Cardinality({ ErrMissingFormFieldName, ErrMissingFormFieldEmail,
                         ErrMissingFormFieldCity, NoErr }) = 4

\* name and email both empty: the name error is the one returned
C18_Witness ==
    /\ FormReturned
    /\ payload.formData.name = ""
    /\ payload.formData.email = ""
    /\ returned.err = ErrMissingFormFieldName

(***************************************************************************)
(* C19  A step of a handler that reads the temperature key (condition,     *)
(* email) is "failed" whenever the context holds no temperature.           *)
(***************************************************************************)
ReadsTemperature(id) == id \in {ConditionNodeID, EmailNodeID}

C19_ReaderFailsWithoutTemperature ==
    TemperatureKey \notin DOMAIN contextData =>
        \A s \in DOMAIN steps :
            ReadsTemperature(steps[s].nodeId) => steps[s].status = StatusFailed

(***************************************************************************)
(* C20  processNodes never unwinds with a panic, and every email node      *)
(* whose handler was invoked has a "completed" StepResult.                 *)
(***************************************************************************)
C20_EmailAlwaysCompletes ==
    /\ pc # "panicked"
    /\ \A k \in DOMAIN invoked :
          invoked[k].handler = "processEmailNode" =>
              \E s \in DOMAIN steps :
                  /\ steps[s].nodeId = invoked[k].id
                  /\ steps[s].status = StatusCompleted

(***************************************************************************)
(* C21  Of two calls of processNodes run one after the other or            *)
(* interleaved, each ends with the result, error, visited set and context  *)
(* it ends with when it runs by itself from empty steps, context and       *)
(* visited set (for some answer of the external services and the handlers  *)
(* it invoked).                                                            *)
(***************************************************************************)
BothCalls == { Current, other }

Settled(call) == call.pc \in {"done", "torn", "panicked"}

HandlerVariables ==
    { [weather |-> a, email |-> b] :
        a \in {DefaultFns.weather, MockFns.weather},
        b \in {DefaultFns.email, MockFns.email} }

\* the handlers call invoked through the two variables are those of f
InvokedThrough(call, f) ==
    \A k \in DOMAIN call.invoked :
        /\ call.invoked[k].handler \in {DefaultFns.weather, MockFns.weather} =>
              call.invoked[k].handler = f.weather
        /\ call.invoked[k].handler \in {DefaultFns.email, MockFns.email} =>
              call.invoked[k].handler = f.email

AsAlone(call) ==
    \E ext \in ExtOutcomes, f \in HandlerVariables :
        /\ InvokedThrough(call, f)
        /\ LET r == processNodesAlone(call.wf, call.payload, ext, f)
           IN  /\ r.panicked <=> call.pc = "panicked"
               /\ ~r.panicked =>
                     /\ call.result = r.result
                     /\ call.err = r.err
               /\ call.visited = r.visited
               /\ call.contextData = r.ctx

C21_CallsAreIndependent == \A call \in BothCalls : Settled(call) => AsAlone(call)

\* two calls on the same workflow have both returned, one with a temperature
\* in its context and one without
C21_Witness ==
    /\ pc = "done" /\ other.pc = "done"
    /\ wf = HappyPathWorkflow /\ other.wf = HappyPathWorkflow
    /\ TemperatureKey \in DOMAIN contextData
    /\ TemperatureKey \notin DOMAIN other.contextData
    /\ Len(other.steps) > 0

(***************************************************************************)
(* C22  The handlers a call invokes are those it was set up with: a call   *)
(* without overrides invokes the default weather and email handlers, a     *)
(* call with overrides invokes the substituted ones, whatever the other    *)
(* call assigns or restores meanwhile.                                     *)
(***************************************************************************)
SetUpWith(call) == IF call.mock THEN MockFns ELSE DefaultFns

C22_SubstitutionIsPerCall ==
    \A call \in BothCalls : InvokedThrough(call, SetUpWith(call))

(***************************************************************************)
(* C23  No step of processNodes or of a handler changes the workflow       *)
(* definition (nodes, edges) or the payload.                               *)
(***************************************************************************)
C23_DefinitionAndPayloadUnchanged ==
    [][wf' = wf /\ payload' = payload]_vars

\* a traversal that returned an error, after recording steps
C23_Witness ==
    /\ pc = "done"
    /\ err # NoErr
    /\ ~result.isNil
    /\ result.status = StatusFailed
    /\ Len(result.steps) > 1

(***************************************************************************)
(* C24  In every returned ExecutionResult each step's output has the       *)
(* duration; temperature and location occur only in the step of the        *)
(* weather handler, conditionMet, message, threshold, operator and         *)
(* actualValue only in the step of the condition handler, the email draft  *)
(* only in the step of the email handler, and error exactly in the failed  *)
(* steps.  The step of a handler is the step of the node it was invoked    *)
(* for.                                                                    *)
(***************************************************************************)
WeatherFields == {"temperature", "location"}

ConditionFields == {"conditionMet", "message", "threshold", "operator", "actualValue"}

EmailFields == {"emailDraft"}

\* the handler that produced step s of a returned result
HandlerOfStep(s) == invoked[s].handler

C24_OutputFieldsByHandler ==
    (pc = "done" /\ ~result.isNil) =>
        /\ Len(invoked) = Len(result.steps)
        /\ \A s \in DOMAIN result.steps :
              LET out == result.steps[s].output
                  completed == result.steps[s].status = StatusCompleted
              IN  /\ invoked[s].id = result.steps[s].nodeId
                  /\ "duration" \in DOMAIN out
                  /\ out.duration = Elapsed
                  /\ (WeatherFields \cap DOMAIN out # {}) =>
                        HandlerOfStep(s) = "processWeatherNode" /\ completed
                  /\ (ConditionFields \cap DOMAIN out # {}) =>
                        HandlerOfStep(s) = "processConditionNode" /\ completed
                  /\ (EmailFields \cap DOMAIN out # {}) =>
                        HandlerOfStep(s) = "processEmailNode" /\ completed
                  /\ "error" \in DOMAIN out <=> ~completed

\* a returned result with a completed condition step and a failed step
C24_Witness ==
    /\ pc = "done"
    /\ ~result.isNil
    /\ \E s, t \in DOMAIN result.steps :
          /\ "conditionMet" \in DOMAIN result.steps[s].output
          /\ result.steps[t].status = StatusFailed

(***************************************************************************)
(* C25  When the traversal fails (a handler failed or the condition        *)
(* routing found no matching edge) the response keeps the step trace, is   *)
(* not the generic internal error, and carries every failed step with its  *)
(* node, error and duration.                                               *)
(***************************************************************************)
Response == HandleExecuteWorkflow(result, err)

TraversalFailed ==
    /\ pc = "done"
    /\ ~result.isNil
    /\ \/ err \in { ErrNoMatchingEdge(id) : id \in NodeIds(wf) }
       \/ \E s \in DOMAIN result.steps : result.steps[s].status = StatusFailed

C25_FailureResponseIdentifiesNode ==
    TraversalFailed =>
        /\ "error" \notin DOMAIN Response.body.v
        /\ "steps" \in DOMAIN Response.body.v
        /\ Len(Response.body.v.steps.v) = Len(result.steps)
        /\ \A s \in DOMAIN result.steps :
              result.steps[s].status = StatusFailed =>
                  LET j == Response.body.v.steps.v[s].v
                  IN  /\ j.nodeId.v = result.steps[s].nodeId
                      /\ j.status.v = StatusFailed
                      /\ {"error", "duration"} \subseteq DOMAIN j.output.v

(***************************************************************************)
(* C26  Every call of processNodes comes to an end, on graphs with cycles, *)
(* self-loops and back edges too; entering a node that is already visited  *)
(* returns nil at once, adding no step and invoking no handler; and at     *)
(* most one handler invocation is made per declared node id.               *)
(***************************************************************************)
Ended == pc \in {"done", "panicked"}

\* the step taken from a state where traverse was called on a visited node
ReEntry == AtEnter /\ Top.id \in visited /\ trace' # trace

C26_TerminatesOnEveryGraph ==
    /\ <>Ended
    /\ [][ReEntry => /\ steps' = steps
                     /\ invoked' = invoked
                     /\ visited' = visited
                     /\ ret' = NoErr]_vars
    /\ [](Len(invoked) <= Cardinality(NodeIds(wf)))

\* a call has returned after traverse was called on a node from itself
C26_Witness ==
    /\ pc = "done"
    /\ \E k \in DOMAIN trace :
          /\ trace[k].kind = "skip"
          /\ trace[k].from = trace[k].to

(***************************************************************************)
(* C27  json.Marshal of a returned ExecutionResult followed by             *)
(* json.Unmarshal into an ExecutionResult.                                 *)
(*   As claimed: the result read back equals the result written, every     *)
(* output value included.                                                  *)
(*   As amended: the result read back has the same executedAt and status,  *)
(* the same steps in the same order with the same nodeId, type, label,     *)
(* description and status, and each output has the same keys and under     *)
(* each key the same value, of the same Go type except that an int64       *)
(* (duration) is read back as the float64 of the same number.              *)
(***************************************************************************)
Written == GoResult(result)

ReadBack == Unmarshal(Marshal(Written))

Returned == pc = "done" /\ ~result.isNil

\* y is x as encoding/json hands it back
RECURSIVE SameJSONValue(_, _)
SameJSONValue(x, y) ==
    IF x.type = "map"
    THEN /\ y.type = "map"
         /\ DOMAIN y.val = DOMAIN x.val
         /\ \A f \in DOMAIN x.val : SameJSONValue(x.val[f], y.val[f])
    ELSE /\ y.type = IF x.type = "int64" THEN "float64" ELSE x.type
         /\ y.val = x.val

C27_RoundTripIsIdentity == Returned => ReadBack = Written

C27_RoundTripKeepsJSONValues ==
    Returned =>
        /\ ReadBack.executedAt = Written.executedAt
        /\ ReadBack.status = Written.status
        /\ Len(ReadBack.steps) = Len(Written.steps)
        /\ \A s \in DOMAIN Written.steps :
              LET w == Written.steps[s]
                  r == ReadBack.steps[s]
              IN  /\ r.nodeId = w.nodeId
                  /\ r.type = w.type
                  /\ r.label = w.label
                  /\ r.description = w.description
                  /\ r.status = w.status
                  /\ SameJSONValue(GoMap(w.output), GoMap(r.output))
        /\ Marshal(ReadBack) = Marshal(Written)

\* the six steps of the chain, with the nested email draft and a temperature
C27_Witness ==
    /\ Returned
    /\ Len(result.steps) = 6
    /\ "emailDraft" \in DOMAIN result.steps[5].output
    /\ "temperature" \in DOMAIN result.steps[3].output

(***************************************************************************)
(* C28  Where a completed weather step is followed by a completed          *)
(* condition step, the weather step's temperature, the condition step's    *)
(* actualValue and the context entry are one value, and conditionMet is    *)
(* the operator's comparison of that value with the threshold.             *)
(***************************************************************************)
CompletedStepOf(s, id) ==
    steps[s].nodeId = id /\ steps[s].status = StatusCompleted

C28_ConditionReadsWeatherTemperature ==
    \A w, c \in DOMAIN steps :
        (w < c /\ CompletedStepOf(w, WeatherAPINodeID)
               /\ CompletedStepOf(c, ConditionNodeID)) =>
            /\ steps[w].output.temperature = contextData[TemperatureKey]
            /\ steps[c].output.actualValue = steps[w].output.temperature
            /\ steps[c].output.conditionMet =
                  Holds(steps[c].output.operator,
                        steps[w].output.temperature.val,
                        steps[c].output.threshold)

\* the weather lookup answered 20.5 and the condition compared it with 21.0
C28_Witness ==
    \E w, c \in DOMAIN steps :
        /\ w < c
        /\ CompletedStepOf(w, WeatherAPINodeID)
        /\ CompletedStepOf(c, ConditionNodeID)
        /\ steps[w].output.temperature.val = 205
        /\ steps[c].output.threshold = 210
        /\ ~steps[c].output.conditionMet

(***************************************************************************)
(* C29  processWeatherNode issues at most two requests, geocoding for the  *)
(* city first and weather second; none with an empty city; the weather     *)
(* request exactly when the geocoding request succeeded, decoded and gave  *)
(* at least one result, and then for the coordinates of the first result;  *)
(* a geocoding failure ends the call with an error after that one request. *)
(***************************************************************************)
WeatherReturned == returned.fn = "processWeatherNode"

GeocodingGaveResult(ext) == ext.geo = "ok" /\ Len(ext.results) > 0

C29_ExternalCallsInOrder ==
    WeatherReturned =>
        LET city == payload.formData.city
            calls == returned.calls
            ext == returned.ext
        IN  /\ Len(calls) <= 2
            /\ city = "" => calls = <<>> /\ returned.err = ErrMissingFormFieldCity
            /\ city # "" =>
                  /\ Len(calls) >= 1
                  /\ calls[1].svc = "geocoding"
                  /\ calls[1].arg = city
            /\ Len(calls) = 2 <=> (city # "" /\ GeocodingGaveResult(ext))
            /\ Len(calls) = 2 =>
                  /\ calls[2].svc = "weather"
                  /\ calls[2].arg = ext.results[1]
            /\ (city # "" /\ ~GeocodingGaveResult(ext)) =>
                  /\ returned.err # NoErr
                  /\ Len(calls) = 1

\* two geocoding results, and the weather request went out for the first
C29_Witness ==
    /\ WeatherReturned
    /\ Len(returned.ext.results) = 2
    /\ returned.ext.results[1] # returned.ext.results[2]
    /\ Len(returned.calls) = 2
    /\ returned.calls[2].arg = returned.ext.results[1]
    /\ returned.err = NoErr

(***************************************************************************)
(* C30  processWeatherNode leaves the context map as it found it whenever  *)
(* it returns an error, and on success changes it only by storing the      *)
(* temperature it decoded; after a failed call on a context without the    *)
(* key, the condition handler reports the key as missing.                  *)
(***************************************************************************)
C30_ContextWrittenOnlyOnSuccess ==
    WeatherReturned =>
        /\ returned.err # NoErr => returned.ctx = contextData
        /\ returned.err = NoErr =>
              /\ DOMAIN returned.ctx = DOMAIN contextData \cup {TemperatureKey}
              /\ returned.ctx[TemperatureKey] = Float64(returned.ext.temp)
        /\ (returned.err # NoErr /\ TemperatureKey \notin DOMAIN contextData) =>
              processConditionNode(Node(ConditionNodeID, "condition", FALSE),
                                   payload, returned.ctx).err = ErrTempMissing

\* the weather service answered with a non-success status; the key is absent
\* before and after
C30_Witness ==
    /\ WeatherReturned
    /\ returned.err = ErrWeatherStatus
    /\ TemperatureKey \notin DOMAIN contextData
    /\ TemperatureKey \notin DOMAIN returned.ctx

(***************************************************************************)
(* C31  Of the edges of the condition node labelled for the outcome, the   *)
(* first in the order of wf.edges is the one followed: its target is the   *)
(* only node traverse is called for from the condition node.               *)
(***************************************************************************)
\* the edges of the condition node labelled for the recorded outcome, in
\* declaration order
MatchingEdges ==
    SelectSeq(OutEdges(ConditionNodeID),
              LAMBDA e : e.label = Sentinel(steps[ConditionStep].output.conditionMet))

C31_FirstMatchingEdgeFollowed ==
    (ConditionStep # 0 /\ Len(MatchingEdges) >= 1) =>
        LET callees == CalleesOf(ConditionNodeID)
        IN  /\ IsPrefix(callees, << MatchingEdges[1].target >>)
            /\ pc = "done" => callees = << MatchingEdges[1].target >>

\* two matching edges with different targets; the second target was never
\* reached
C31_Witness ==
    /\ pc = "done"
    /\ ConditionStep # 0
    /\ Len(MatchingEdges) >= 2
    /\ MatchingEdges[1].target # MatchingEdges[2].target
    /\ MatchingEdges[2].target \notin visited

(***************************************************************************)
(* C32  Once traverse is called for an id that is not in nodeMap, nothing  *)
(* more is entered or executed and no step is added; processNodes returns  *)
(* the node-not-found error with a failed result holding the steps as they *)
(* were, none of them for the missing id.                                  *)
(***************************************************************************)
\* the positions of trace at which the lookup in nodeMap failed
Missed == { k \in DOMAIN trace : trace[k].kind = "notfound" }

C32_MissingTargetStopsTheWalk ==
    /\ [](Missed # {} =>
            /\ Missed = { Len(trace) }
            /\ ~(stack # <<>> /\ Top.pc = "enter")
            /\ \A s \in DOMAIN steps : steps[s].nodeId # trace[Len(trace)].to
            /\ pc \in {"running", "done"}
            /\ pc = "done" =>
                  /\ err = ErrNodeNotFound(trace[Len(trace)].to)
                  /\ ~result.isNil
                  /\ result.status = StatusFailed
                  /\ result.steps = steps)
    /\ [][Missed # {} =>
            /\ steps' = steps
            /\ invoked' = invoked
            /\ trace' = trace
            /\ visited' = visited]_vars

\* the missing id was reached after a step was recorded, from a node with a
\* later edge to a node that has not been visited
C32_Witness ==
    /\ pc = "done"
    /\ Missed # {}
    /\ steps # <<>>
    /\ LET from == trace[Len(trace)].from
           ts == OutTargets(from)
       IN  \E k, j \in DOMAIN ts :
              /\ k < j
              /\ ts[k] = trace[Len(trace)].to
              /\ ts[j] \in NodeIds(wf) \ visited

(***************************************************************************)
(* C33  Every call of processNodes returns; the result is nil exactly for  *)
(* the two structural errors, and a result that is not nil has status      *)
(* failed exactly when the error is not nil and completed exactly when it  *)
(* is nil.                                                                 *)
(***************************************************************************)
\* what holds of the pair (result, err) a call hands back
ResultMatchesError ==
    /\ result.isNil <=> err \in {ErrMissingStartNode, ErrMissingEndNode}
    /\ ~result.isNil =>
          /\ result.status = StatusFailed <=> err # NoErr
          /\ result.status = StatusCompleted <=> err = NoErr

C33_ResultMatchesError ==
    Ended => pc = "done" /\ ResultMatchesError

\* the same of the calls that return
C33_ReturnedResultMatchesError ==
    pc = "done" => ResultMatchesError

(***************************************************************************)
(* C34  Two calls of processNodes on the same workflow and payload, in     *)
(* which the weather and email handlers handed back the same error and the *)
(* same temperature wherever both calls invoked them, return the same      *)
(* steps (ids, order, statuses, outputs), the same status and the same     *)
(* error.  Times are not modelled: every duration is Elapsed and every     *)
(* executedAt is Now.                                                      *)
(***************************************************************************)
HasReturned(call) == call.pc \in {"done", "torn"}

ThroughVariable(call) ==
    { k \in DOMAIN call.invoked :
        call.invoked[k].handler \in
            {DefaultFns.weather, MockFns.weather, DefaultFns.email, MockFns.email} }

\* what the handler call invoked for node id handed back: its error, as the
\* failed step of the node records it, and the temperature it left
HandlerOutcome(call, id) ==
    LET failed == { s \in DOMAIN call.steps :
                      /\ call.steps[s].nodeId = id
                      /\ call.steps[s].status = StatusFailed }
    IN  IF failed # {}
        THEN [err |-> call.steps[CHOOSE s \in failed : TRUE].output.error, temp |-> <<>>]
        ELSE [err |-> NoErr,
              temp |-> IF id = WeatherAPINodeID /\ TemperatureKey \in DOMAIN call.contextData
                       THEN << call.contextData[TemperatureKey] >> ELSE <<>>]

SameHandlerOutcomes(a, b) ==
    \A i \in ThroughVariable(a), j \in ThroughVariable(b) :
        a.invoked[i].id = b.invoked[j].id =>
            HandlerOutcome(a, a.invoked[i].id) = HandlerOutcome(b, b.invoked[j].id)

C34_SameInputsSameResult ==
    (/\ HasReturned(Current) /\ HasReturned(other)
     /\ wf = other.wf
     /\ payload = other.payload
     /\ SameHandlerOutcomes(Current, other)) =>
        /\ steps = other.steps
        /\ result.isNil = other.result.isNil
        /\ result.status = other.result.status
        /\ result.steps = other.result.steps
        /\ err = other.err

\* the two calls went through the whole workflow, one with the default
\* handlers and one with the substituted ones, and the weather handlers
\* handed back the same temperature
C34_Witness ==
    /\ HasReturned(Current) /\ HasReturned(other)
    /\ wf = HappyPathWorkflow /\ other.wf = HappyPathWorkflow
    /\ payload = other.payload
    /\ SameHandlerOutcomes(Current, other)
    /\ Len(steps) >= 5
    /\ \E i \in DOMAIN invoked : invoked[i].handler = DefaultFns.weather
    /\ \E j \in DOMAIN other.invoked : other.invoked[j].handler = MockFns.weather

\* the weather handlers handed back different outcomes to the two calls
C34_OutcomesDiffer ==
    /\ HasReturned(Current) /\ HasReturned(other)
    /\ wf = other.wf
    /\ payload = other.payload
    /\ ~SameHandlerOutcomes(Current, other)
    /\ steps # other.steps

(***************************************************************************)
(* C35  Every ExecutionResult processNodes returns has at least one step,  *)
(* and the first is the step of the start node, with status completed; no  *)
(* step recorded for an invocation of the start or the end handler is      *)
(* failed.                                                                 *)
(***************************************************************************)
C35_StartStepComesFirst ==
    /\ Returned =>
          /\ result.steps # <<>>
          /\ result.steps[1].nodeId = StartNodeID
          /\ result.steps[1].status = StatusCompleted
    /\ \A s \in DOMAIN steps :
          HandlerOfStep(s) \in {"processStartNode", "processEndNode"} =>
              steps[s].status = StatusCompleted

\* a failed result whose steps include that of the end node
C35_Witness ==
    /\ Returned
    /\ result.status = StatusFailed
    /\ \E s \in DOMAIN result.steps :
          /\ s > 1
          /\ HandlerOfStep(s) = "processEndNode"
          /\ result.steps[s].nodeId = EndNodeID

====
